---- MODULE Spec2Model ----
(***************************************************************************)
(* Attribution engine of the co-create collector: the typed-input tracker  *)
(* (HumanInputTracker), the workspace-scoped agent activity monitor        *)
(* (AgentActivityMonitor) and the diff collector with its LCS line diff    *)
(* (collectors/diff.ts).                                                   *)
(*                                                                         *)
(* Strings are sequences of one-character strings, so that split, join,    *)
(* startsWith and the "- " / "+ " prefixes are computed, not assumed.      *)
(***************************************************************************)
EXTENDS Integers, Sequences, FiniteSets, TLC

VARIABLES
  now,              \* Date.now(), in ms
  \* HumanInputTracker
  pendingInputs,    \* queue of {text, timestamp, filePath}
  humanInputBuffer, \* per file: typed text not yet matched ("" when absent)
  pendingTab,       \* {filePath, timestamp}, NoTab for null
  lastChange,       \* when classifyChange has just returned: its arguments,
                    \* what it logged on entry, the classification returned
  keystrokes,       \* how many times the type command has run
  \* computeDiff called on its own
  oldText,          \* first argument
  newText,          \* second argument
  diffDone,         \* computeDiff has returned
  diff,             \* returned {text, added, removed}
  \* AgentActivityMonitor and the databases it polls
  agentMonitor,     \* the monitor's fields
  cursorDb,         \* Cursor's databases as a poll would read them now
  \* DiffCollector
  fileStates,       \* per file: the FileState, tracked = the map has the key
  timers,           \* debounce timers pending: {id, filePath, due}
  activeFile,       \* DiffCollector.activeFile
  suspended,        \* handlers waiting in an await, in call order
  lastRecord,       \* when a handler has just called
                    \* sessionManager.recordEvent: the event, with what
                    \* the handler logs and the monitor's state at the call
  lastCalls,        \* what the handler that has just run called: flushDiff
                    \* on a FileState, consumeAgentActivity
  \* SessionManager
  isInitialized,    \* SessionManager.isInitialized; the extension's
                    \* listeners are registered exactly while it holds
  currentSession,   \* SessionManager.currentSession: its id, 0 for null
  lastActivityTime, \* SessionManager.lastActivityTime
  \* the collector's database
  sessions,         \* the sessions table of the open database, by id:
                    \* {startedAt, ended, latestEvent}
  savedSessions     \* the sessions table in the database file

trackerVars == <<pendingInputs, humanInputBuffer, pendingTab, lastChange, keystrokes>>
diffVars == <<oldText, newText, diffDone, diff>>
monitorVars == <<agentMonitor, cursorDb>>
collectorVars == <<fileStates, timers, activeFile, suspended, lastRecord, lastCalls,
                   isInitialized>>
sessionVars == <<currentSession, lastActivityTime, sessions, savedSessions>>
vars == <<now, trackerVars, diffVars, monitorVars, collectorVars, sessionVars>>

----------------------------------------------------------------------------
(* Bounds *)

\* longest text (in characters) handed to computeDiff
MaxTextLen == 4

\* type commands executed in one run of the tracker
MaxKeystrokes == 2

\* the tracker's clock stops after this many expiry windows
MaxTrackerTicks == 1

\* the collector's clock stops after this many steps
MaxClockTicks == 1

\* writes of the agent to Cursor's databases in one run of the collector
MaxAgentEvents == 1

\* writes of the agent to Cursor's databases in one run of the monitor
MaxMonitorEvents == 2

\* the monitor's clock stops after this many steps
MaxMonitorTicks == 3

\* handlers waiting in an await at one time
MaxSuspended == 1

\* debounce timers pending at one time
MaxTimers == 1
MaxPendingTimers == 2

\* characters counted in one batch of one file
MaxChars == 1

\* type commands executed in one run of the collector
MaxTyped == 1

NULL == "null"
Files == {"f1", "f2"}

----------------------------------------------------------------------------
(* String helpers (JavaScript String / Array methods) *)

NL == "\n"
TAB == "\t"
SP == " "

Max(x, y) == IF x > y THEN x ELSE y

\* String.prototype.startsWith
startsWith(s, prefix) ==
  /\ Len(prefix) <= Len(s)
  /\ SubSeq(s, 1, Len(prefix)) = prefix

\* String.prototype.split('\n'): never empty, "" gives [""]
RECURSIVE split(_)
split(text) ==
  IF \A i \in 1..Len(text) : text[i] # NL
  THEN <<text>>
  ELSE LET k == CHOOSE i \in 1..Len(text) :
                  /\ text[i] = NL
                  /\ \A j \in 1..(i - 1) : text[j] # NL
       IN  <<SubSeq(text, 1, k - 1)>> \o split(SubSeq(text, k + 1, Len(text)))

\* Array.prototype.join('\n')
RECURSIVE join(_)
join(lines) ==
  IF Len(lines) = 0 THEN <<>>
  ELSE IF Len(lines) = 1 THEN lines[1]
  ELSE lines[1] \o <<NL>> \o join(Tail(lines))

----------------------------------------------------------------------------
(* Diff/LCS engine: DiffCollector.computeDiff, computeHunks,               *)
(* longestCommonSubsequence                                                *)

\* the DP table of longestCommonSubsequence, dp[i][j] for prefixes i, j
dpTable(a, b) ==
  LET dp[i \in 0..Len(a), j \in 0..Len(b)] ==
        IF i = 0 \/ j = 0 THEN 0
        ELSE IF a[i] = b[j] THEN dp[i - 1, j - 1] + 1
        ELSE Max(dp[i - 1, j], dp[i, j - 1])
  IN  dp

\* bug variant: on unequal lines the backtrack always moves up the table,
\* whatever the two neighbouring cells hold
RECURSIVE backtrack_alwaysUp(_, _, _, _, _)
backtrack_alwaysUp(a, b, dp, i, j) ==
  IF ~(i > 0 /\ j > 0) THEN <<>>
  ELSE IF a[i] = b[j] THEN backtrack_alwaysUp(a, b, dp, i - 1, j - 1) \o <<a[i]>>
  ELSE backtrack_alwaysUp(a, b, dp, i - 1, j)

\* the backtrack loop of longestCommonSubsequence (lcs.unshift builds the
\* result front to back)
RECURSIVE backtrack(_, _, _, _, _)
backtrack(a, b, dp, i, j) ==
  IF ~(i > 0 /\ j > 0) THEN <<>>
  ELSE IF a[i] = b[j] THEN backtrack(a, b, dp, i - 1, j - 1) \o <<a[i]>>
  ELSE IF dp[i - 1, j] > dp[i, j - 1] THEN backtrack(a, b, dp, i - 1, j)
  ELSE backtrack(a, b, dp, i, j - 1)

\* bug variant: the backtrack starts one cell short of the table's corner
longestCommonSubsequence_offByOne(a, b) ==
  backtrack(a, b, dpTable(a, b), Max(Len(a) - 1, 0), Max(Len(b) - 1, 0))

longestCommonSubsequence(a, b) ==
  backtrack(a, b, dpTable(a, b), Len(a), Len(b))

\* "Skip matching lines": how many lines the inner while loop skips.
\* Indices are 0-based as in the source; line idx is lines[idx + 1] here.
RECURSIVE skipMatching(_, _, _, _, _, _)
skipMatching(oldLines, newLines, lcs, oldIdx, newIdx, lcsIdx) ==
  IF /\ lcsIdx < Len(lcs)
     /\ oldIdx < Len(oldLines)
     /\ newIdx < Len(newLines)
     /\ oldLines[oldIdx + 1] = lcs[lcsIdx + 1]
     /\ newLines[newIdx + 1] = lcs[lcsIdx + 1]
  THEN 1 + skipMatching(oldLines, newLines, lcs, oldIdx + 1, newIdx + 1, lcsIdx + 1)
  ELSE 0

\* "Removed lines" / "Added lines": the index at which the while loop over
\* one side stops
RECURSIVE diffRun(_, _, _, _)
diffRun(lines, lcs, idx, lcsIdx) ==
  IF idx < Len(lines) /\ (lcsIdx >= Len(lcs) \/ lines[idx + 1] # lcs[lcsIdx + 1])
  THEN diffRun(lines, lcs, idx + 1, lcsIdx)
  ELSE idx

\* bug variant: the lines are pushed without their prefix
prefixed_bare(prefix, lines, idx0, idx1) ==
  [k \in 1..(idx1 - idx0) |-> lines[idx0 + k]]

\* the lines idx0 .. idx1-1 of one side, each with its prefix
prefixed(prefix, lines, idx0, idx1) ==
  [k \in 1..(idx1 - idx0) |-> prefix \o lines[idx0 + k]]

\* bug variant: within a hunk the added lines are pushed before the removed
\* lines
RECURSIVE hunkLoop_addedFirst(_, _, _, _, _, _, _)
hunkLoop_addedFirst(oldLines, newLines, lcs, oldIdx0, newIdx0, lcsIdx0, hunks) ==
  IF ~(oldIdx0 < Len(oldLines) \/ newIdx0 < Len(newLines)) THEN hunks
  ELSE
    LET skipped      == skipMatching(oldLines, newLines, lcs, oldIdx0, newIdx0, lcsIdx0)
        hunkOldStart == oldIdx0 + skipped
        hunkNewStart == newIdx0 + skipped
        lcsIdx       == lcsIdx0 + skipped
        oldIdx       == diffRun(oldLines, lcs, hunkOldStart, lcsIdx)
        newIdx       == diffRun(newLines, lcs, hunkNewStart, lcsIdx)
        hunkLines    == prefixed(<<"+", SP>>, newLines, hunkNewStart, newIdx)
                          \o prefixed(<<"-", SP>>, oldLines, hunkOldStart, oldIdx)
        hunk         == [oldStart |-> hunkOldStart,
                         oldCount |-> oldIdx - hunkOldStart,
                         newStart |-> hunkNewStart,
                         newCount |-> newIdx - hunkNewStart,
                         lines    |-> hunkLines]
    IN  hunkLoop_addedFirst(oldLines, newLines, lcs, oldIdx, newIdx, lcsIdx,
                            IF Len(hunkLines) > 0 THEN Append(hunks, hunk) ELSE hunks)

\* the outer while loop of computeHunks
RECURSIVE hunkLoop(_, _, _, _, _, _, _)
hunkLoop(oldLines, newLines, lcs, oldIdx0, newIdx0, lcsIdx0, hunks) ==
  IF ~(oldIdx0 < Len(oldLines) \/ newIdx0 < Len(newLines)) THEN hunks
  ELSE
    LET skipped      == skipMatching(oldLines, newLines, lcs, oldIdx0, newIdx0, lcsIdx0)
        hunkOldStart == oldIdx0 + skipped
        hunkNewStart == newIdx0 + skipped
        lcsIdx       == lcsIdx0 + skipped
        oldIdx       == diffRun(oldLines, lcs, hunkOldStart, lcsIdx)
        newIdx       == diffRun(newLines, lcs, hunkNewStart, lcsIdx)
        hunkLines    == prefixed(<<"-", SP>>, oldLines, hunkOldStart, oldIdx)
                          \o prefixed(<<"+", SP>>, newLines, hunkNewStart, newIdx)
        hunk         == [oldStart |-> hunkOldStart,
                         oldCount |-> oldIdx - hunkOldStart,
                         newStart |-> hunkNewStart,
                         newCount |-> newIdx - hunkNewStart,
                         lines    |-> hunkLines]
    IN  hunkLoop(oldLines, newLines, lcs, oldIdx, newIdx, lcsIdx,
                 IF Len(hunkLines) > 0 THEN Append(hunks, hunk) ELSE hunks)

computeHunks(oldLines, newLines) ==
  hunkLoop(oldLines, newLines, longestCommonSubsequence(oldLines, newLines),
           0, 0, 0, <<>>)

\* one iteration of the outer while loop of computeHunks from the indices
\* s = {oldIdx, newIdx, lcsIdx}: the indices it ends with and the hunk it
\* has collected
\* bug variant: the matching lines are not skipped
hunkStep_noSkip(oldLines, newLines, lcs, s) ==
  LET oldIdx    == diffRun(oldLines, lcs, s.oldIdx, s.lcsIdx)
      newIdx    == diffRun(newLines, lcs, s.newIdx, s.lcsIdx)
      hunkLines == prefixed(<<"-", SP>>, oldLines, s.oldIdx, oldIdx)
                     \o prefixed(<<"+", SP>>, newLines, s.newIdx, newIdx)
  IN  [oldIdx |-> oldIdx, newIdx |-> newIdx, lcsIdx |-> s.lcsIdx,
       hunk   |-> [oldStart |-> s.oldIdx,
                   oldCount |-> oldIdx - s.oldIdx,
                   newStart |-> s.newIdx,
                   newCount |-> newIdx - s.newIdx,
                   lines    |-> hunkLines]]

hunkStep(oldLines, newLines, lcs, s) ==
  LET skipped      == skipMatching(oldLines, newLines, lcs, s.oldIdx, s.newIdx, s.lcsIdx)
      hunkOldStart == s.oldIdx + skipped
      hunkNewStart == s.newIdx + skipped
      lcsIdx       == s.lcsIdx + skipped
      oldIdx       == diffRun(oldLines, lcs, hunkOldStart, lcsIdx)
      newIdx       == diffRun(newLines, lcs, hunkNewStart, lcsIdx)
      hunkLines    == prefixed(<<"-", SP>>, oldLines, hunkOldStart, oldIdx)
                        \o prefixed(<<"+", SP>>, newLines, hunkNewStart, newIdx)
  IN  [oldIdx |-> oldIdx, newIdx |-> newIdx, lcsIdx |-> lcsIdx,
       hunk   |-> [oldStart |-> hunkOldStart,
                   oldCount |-> oldIdx - hunkOldStart,
                   newStart |-> hunkNewStart,
                   newCount |-> newIdx - hunkNewStart,
                   lines    |-> hunkLines]]

\* the iterations the outer loop makes from s, the first n of them when it
\* makes more
RECURSIVE hunkIterations(_, _, _, _, _)
hunkIterations(oldLines, newLines, lcs, s, n) ==
  IF ~(s.oldIdx < Len(oldLines) \/ s.newIdx < Len(newLines)) \/ n = 0 THEN <<>>
  ELSE LET next == hunkStep(oldLines, newLines, lcs, s)
       IN  <<next>> \o hunkIterations(oldLines, newLines, lcs, next, n - 1)

\* how many lines of a hunk start with the character c
countPrefixed(lines, c) ==
  Cardinality({k \in 1..Len(lines) : startsWith(lines[k], <<c>>)})

\* the added / removed counters of computeDiff's loop over the hunks
RECURSIVE countLines(_, _)
countLines(hunks, c) ==
  IF Len(hunks) = 0 THEN 0
  ELSE countPrefixed(hunks[1].lines, c) + countLines(Tail(hunks), c)

\* bug variant: the header prints the 0-based hunk offsets
computeDiff_zeroBased(old, new) ==
  LET hunks == computeHunks(split(old), split(new))
  IN  [text    |-> hunks,
       added   |-> countLines(hunks, "+"),
       removed |-> countLines(hunks, "-")]

\* computeDiff.  text is kept as the sequence of its hunks, each with the
\* numbers its "@@ -oldStart,oldCount +newStart,newCount @@" header prints
\* (1-based starts) and its prefixed lines.
computeDiff(old, new) ==
  LET hunks == computeHunks(split(old), split(new))
  IN  [text    |-> [k \in 1..Len(hunks) |->
                      [oldStart |-> hunks[k].oldStart + 1,
                       oldCount |-> hunks[k].oldCount,
                       newStart |-> hunks[k].newStart + 1,
                       newCount |-> hunks[k].newCount,
                       lines    |-> hunks[k].lines]],
       added   |-> countLines(hunks, "+"),
       removed |-> countLines(hunks, "-")]

----------------------------------------------------------------------------
(* HumanInputTracker.  Its methods are operators on the tracker's fields   *)
(* tr = [pendingInputs, humanInputBuffer, pendingTab] and the clock t,     *)
(* giving the fields after the call.                                       *)

INPUT_EXPIRY_MS == 500

NoTab == [filePath |-> NULL, timestamp |-> 0]

\* String.prototype.includes
includes(s, sub) ==
  \E i \in 0..(Len(s) - Len(sub)) : SubSeq(s, i + 1, i + Len(sub)) = sub

\* /^\s*$/.test(addedText)
isJustWhitespace(addedText) ==
  \A i \in 1..Len(addedText) : addedText[i] \in {SP, TAB, NL}

\* bug variant: a live Tab mark makes any whitespace-only text indentation
isJustIndentation_anyWhitespace(addedText) ==
  Len(addedText) > 0 /\ isJustWhitespace(addedText)

\* /^(\t| {1,8})$/.test(addedText)
isJustIndentation(addedText) ==
  \/ addedText = <<TAB>>
  \/ /\ Len(addedText) \in 1..8
     /\ \A i \in 1..Len(addedText) : addedText[i] = SP

cleanupExpiredInputs(tr, t) ==
  LET cutoff == t - INPUT_EXPIRY_MS
      fresh(p) == p.timestamp > cutoff
  IN  [tr EXCEPT
         !.pendingInputs = SelectSeq(tr.pendingInputs, fresh),
         !.pendingTab = IF tr.pendingTab # NoTab /\ tr.pendingTab.timestamp < cutoff
                        THEN NoTab ELSE tr.pendingTab]

\* bug variant: the queue entries of the file are kept
clearPendingForFile_keepQueue(tr, filePath) ==
  [tr EXCEPT
     !.humanInputBuffer[filePath] = <<>>,
     !.pendingTab = IF tr.pendingTab.filePath = filePath
                    THEN NoTab ELSE tr.pendingTab]

\* bug variant: the typed buffer of the file is kept
clearPendingForFile_keepBuffer(tr, filePath) ==
  LET other(p) == p.filePath # filePath
  IN  [tr EXCEPT
         !.pendingInputs = SelectSeq(tr.pendingInputs, other),
         !.pendingTab = IF tr.pendingTab.filePath = filePath
                        THEN NoTab ELSE tr.pendingTab]

clearPendingForFile(tr, filePath) ==
  LET other(p) == p.filePath # filePath
  IN  [tr EXCEPT
         !.humanInputBuffer[filePath] = <<>>,
         !.pendingInputs = SelectSeq(tr.pendingInputs, other),
         !.pendingTab = IF tr.pendingTab.filePath = filePath
                        THEN NoTab ELSE tr.pendingTab]

clearBuffer(tr, filePath) ==
  [tr EXCEPT !.humanInputBuffer[filePath] = <<>>]

\* bug variant: a mismatch with the buffer keeps the buffer
consumeInput_keepOnMismatch(tr, filePath, consumedText) ==
  LET existing == tr.humanInputBuffer[filePath]
      kept(p) == ~(p.filePath = filePath /\ includes(consumedText, p.text))
  IN  [tr EXCEPT
         !.humanInputBuffer[filePath] =
            IF startsWith(existing, consumedText)
            THEN SubSeq(existing, Len(consumedText) + 1, Len(existing))
            ELSE existing,
         !.pendingInputs = SelectSeq(tr.pendingInputs, kept)]

\* bug variant: matched entries are removed from the queue whatever their file
consumeInput_anyFile(tr, filePath, consumedText) ==
  LET existing == tr.humanInputBuffer[filePath]
      kept(p) == ~includes(consumedText, p.text)
  IN  [tr EXCEPT
         !.humanInputBuffer[filePath] =
            IF startsWith(existing, consumedText)
            THEN SubSeq(existing, Len(consumedText) + 1, Len(existing))
            ELSE <<>>,
         !.pendingInputs = SelectSeq(tr.pendingInputs, kept)]

consumeInput(tr, filePath, consumedText) ==
  LET existing == tr.humanInputBuffer[filePath]
      kept(p) == ~(p.filePath = filePath /\ includes(consumedText, p.text))
  IN  [tr EXCEPT
         !.humanInputBuffer[filePath] =
            IF startsWith(existing, consumedText)
            THEN SubSeq(existing, Len(consumedText) + 1, Len(existing))
            ELSE <<>>,
         !.pendingInputs = SelectSeq(tr.pendingInputs, kept)]

\* bug variant: a change is expected to deliver one typed character
textMatchesPending_oneChar(addedText, pendingText) ==
  Len(addedText) = 1 /\ startsWith(pendingText, addedText)

\* bug variant: only character-by-character delivery matches
textMatchesPending_prefixOnly(addedText, pendingText) ==
  Len(addedText) <= Len(pendingText) /\ startsWith(pendingText, addedText)

textMatchesPending(addedText, pendingText) ==
  IF Len(addedText) <= Len(pendingText)
  THEN startsWith(pendingText, addedText)
  ELSE startsWith(addedText, pendingText)

\* called after cleanupExpiredInputs, at the same Date.now(): every entry
\* left in the queue is younger than INPUT_EXPIRY_MS
detectPossibleCompletion(tr, filePath, addedText, t) ==
  /\ \E i \in 1..Len(tr.pendingInputs) :
       /\ tr.pendingInputs[i].filePath = filePath
       /\ t - tr.pendingInputs[i].timestamp < 2000
  /\ ~isJustWhitespace(addedText)
  /\ ~(Len(addedText) < 3 \/ Len(addedText) > 500)

\* bug variant: the Tab mark of any file is applied
tabIsLive_anyFile(tr, filePath, t) ==
  /\ tr.pendingTab # NoTab
  /\ t - tr.pendingTab.timestamp < INPUT_EXPIRY_MS

\* the condition under which classifyChange takes the Tab branch
tabIsLive(tr, filePath, t) ==
  /\ tr.pendingTab # NoTab
  /\ tr.pendingTab.filePath = filePath
  /\ t - tr.pendingTab.timestamp < INPUT_EXPIRY_MS

human(n) == [type |-> "human", humanChars |-> n, externalChars |-> 0]
external(n) == [type |-> "external", humanChars |-> 0, externalChars |-> n]

\* classifyChange: [tr |-> the fields after the call,
\*                  classification |-> the value returned]
classifyChange(tr0, filePath, addedText, t) ==
  LET tr == cleanupExpiredInputs(tr0, t)
      pendingHumanText == tr.humanInputBuffer[filePath]
  IN  IF tabIsLive(tr, filePath, t) /\ isJustIndentation(addedText)
      THEN [tr |-> clearPendingForFile([tr EXCEPT !.pendingTab = NoTab], filePath),
            classification |-> human(Len(addedText))]
      ELSE IF tabIsLive(tr, filePath, t) /\ Len(addedText) > 0
      THEN [tr |-> clearPendingForFile([tr EXCEPT !.pendingTab = NoTab], filePath),
            classification |-> external(Len(addedText))]
      ELSE IF /\ Len(pendingHumanText) > 0
              /\ Len(addedText) > 0
              /\ textMatchesPending(addedText, pendingHumanText)
      THEN [tr |-> consumeInput(tr, filePath, addedText),
            classification |-> human(Len(addedText))]
      ELSE [tr |-> clearPendingForFile(tr, filePath),
            classification |-> external(Len(addedText))]

\* onType, for the file of the active text editor
onType(tr, filePath, text, t) ==
  cleanupExpiredInputs(
    [pendingTab       |-> IF text = <<TAB>>
                          THEN [filePath |-> filePath, timestamp |-> t]
                          ELSE tr.pendingTab,
     pendingInputs    |-> Append(tr.pendingInputs,
                                 [text |-> text, timestamp |-> t, filePath |-> filePath]),
     humanInputBuffer |-> [tr.humanInputBuffer EXCEPT ![filePath] = @ \o text]],
    t)

markTabPressed(tr, filePath, t) ==
  [tr EXCEPT !.pendingTab = [filePath |-> filePath, timestamp |-> t]]

----------------------------------------------------------------------------
(* AgentActivityMonitor.  mon is the record of the monitor's fields; a     *)
(* workspace path is a string, "" standing for null / undefined (both are  *)
(* falsy where the code tests a path); an interaction is its bubbleId,     *)
(* NoInteraction standing for null.  lastAgentActivityTime is written by   *)
(* markAgentActive and never read, and is left out.                        *)

RECENT_AGENT_ACTIVITY_MS == 4000

NoPath == <<>>
NoInteraction == 0

\* bug variant: recency alone decides, the consumed flag is not read
isAgentActive_recencyOnly(mon, workspaceFsPath, t) ==
  /\ t - mon.newActivityDetectedAt < RECENT_AGENT_ACTIVITY_MS
  /\ ~(/\ workspaceFsPath # NoPath
       /\ mon.lastWorkspaceFsPath # NoPath
       /\ ~startsWith(workspaceFsPath, mon.lastWorkspaceFsPath))

\* bug variant: the activity is still recent when exactly one window has
\* elapsed
isAgentActive_inclusiveWindow(mon, workspaceFsPath, t) ==
  IF mon.agentActivityConsumed THEN FALSE
  ELSE IF t - mon.newActivityDetectedAt <= RECENT_AGENT_ACTIVITY_MS
  THEN ~(/\ workspaceFsPath # NoPath
         /\ mon.lastWorkspaceFsPath # NoPath
         /\ ~startsWith(workspaceFsPath, mon.lastWorkspaceFsPath))
  ELSE FALSE

isAgentActive(mon, workspaceFsPath, t) ==
  IF mon.agentActivityConsumed THEN FALSE
  ELSE IF t - mon.newActivityDetectedAt < RECENT_AGENT_ACTIVITY_MS
  THEN ~(/\ workspaceFsPath # NoPath
         /\ mon.lastWorkspaceFsPath # NoPath
         /\ ~startsWith(workspaceFsPath, mon.lastWorkspaceFsPath))
  ELSE FALSE

getSource(mon, workspaceFsPath, t) ==
  IF isAgentActive(mon, workspaceFsPath, t) THEN "agent" ELSE "human"

getAgentSubtype(mon, workspaceFsPath, t) ==
  IF ~isAgentActive(mon, workspaceFsPath, t) THEN NULL ELSE mon.lastAgentSubtype

getAgentInteraction(mon, workspaceFsPath, t) ==
  IF ~isAgentActive(mon, workspaceFsPath, t) THEN NoInteraction
  ELSE mon.lastAgentInteraction

consumeAgentActivity(mon) ==
  [mon EXCEPT !.agentActivityConsumed = TRUE]

\* activations counts the calls of markAgentActive
markAgentActive(mon, subtype, interaction, workspaceFsPath, t) ==
  [mon EXCEPT
     !.newActivityDetectedAt = t,
     !.lastAgentSubtype = subtype,
     !.lastAgentInteraction = interaction,
     !.lastWorkspaceFsPath = workspaceFsPath,
     !.agentActivityConsumed = FALSE,
     !.activations = @ + 1]

\* Cursor's databases as the poll reads them:
\*   bubbleTimestamp  getLatestAIBubbleTimestamp(), the n-th bubble's
\*                    timestamp being n, 0 for null
\*   generations      how many AI generations the workspace database holds
\*   generation       getMostRecentAIGeneration(): {unixMs, type}
\*   inlineDiffCount  getInlineDiffCount()
NoGeneration == [unixMs |-> 0, type |-> NULL]

\* getLatestAgentInteraction(): the latest bubble's data
getLatestAgentInteraction(db) == db.bubbleTimestamp

\* the bubbleId (generationUUID) of an interaction built from a generation
GenerationInteraction == -1

\* the first workspace folder, workspaceFolders[0].uri.fsPath
WorkspaceFolder == <<"/", "w">>

\* checkForAgentActivity, its three checks in order
checkBubble(mon, db, t) ==
  IF db.bubbleTimestamp # 0 /\ db.bubbleTimestamp # mon.lastKnownBubbleTimestamp
  THEN LET interaction == getLatestAgentInteraction(db)
           marked == IF interaction # NoInteraction
                     THEN markAgentActive(mon, "composer", interaction, WorkspaceFolder, t)
                     ELSE mon
       IN  [marked EXCEPT !.lastKnownBubbleTimestamp = db.bubbleTimestamp]
  ELSE mon

checkGeneration(mon, db, t) ==
  IF db.generation # NoGeneration /\ db.generation.unixMs > mon.lastKnownGenerationTime
  THEN LET ageMs == t - db.generation.unixMs
           interaction == getLatestAgentInteraction(db)
           finalInteraction == IF interaction # NoInteraction THEN interaction
                               ELSE GenerationInteraction
           marked == IF ageMs < 30000 /\ db.generation.type = "cmdk"
                     THEN markAgentActive(mon, "cmdk", finalInteraction, WorkspaceFolder, t)
                     ELSE mon
       IN  [marked EXCEPT !.lastKnownGenerationTime = db.generation.unixMs]
  ELSE mon

\* bug variant: an inline-diff count that is not lower counts as new
checkInlineDiff_notLower(mon, db, t) ==
  LET marked == IF db.inlineDiffCount >= mon.lastKnownInlineDiffCount
                THEN markAgentActive(mon, "cmdk", getLatestAgentInteraction(db),
                                     WorkspaceFolder, t)
                ELSE mon
  IN  [marked EXCEPT !.lastKnownInlineDiffCount = db.inlineDiffCount]

checkInlineDiff(mon, db, t) ==
  LET marked == IF db.inlineDiffCount > mon.lastKnownInlineDiffCount
                THEN markAgentActive(mon, "cmdk", getLatestAgentInteraction(db),
                                     WorkspaceFolder, t)
                ELSE mon
  IN  [marked EXCEPT !.lastKnownInlineDiffCount = db.inlineDiffCount]

checkForAgentActivity(mon, db, t) ==
  checkInlineDiff(checkGeneration(checkBubble(mon, db, t), db, t), db, t)

----------------------------------------------------------------------------
(* DiffCollector.  Its handlers are operators on c, the record of          *)
(* everything a handler reads or writes:                                   *)
(*   fileStates   per file, the FileState (tracked = the map has the key)  *)
(*   timers       the debounce timers set and neither cleared nor fired:   *)
(*                {id, filePath, due}; FileState.timeout holds the id, 0   *)
(*                for null                                                 *)
(*   activeFile   DiffCollector.activeFile                                 *)
(*   suspended    the handlers waiting in an await, in call order          *)
(*   mon          the AgentActivityMonitor                                 *)
(*   tr           the HumanInputTracker                                    *)
(*   lastRecord   the event the handler hands to                           *)
(*                sessionManager.recordEvent, NoRecord when it does not    *)
(*   calls        the calls the handler has made so far                    *)
(*   isInitialized  SessionManager.isInitialized                           *)

DEBOUNCE_MS == 5000

NoFileState ==
  [tracked |-> FALSE, baseline |-> <<>>, current |-> <<>>, timeout |-> 0,
   hadAgentActivity |-> FALSE, agentSubtype |-> NULL,
   agentInteraction |-> NoInteraction, humanTypedChars |-> 0, externalChars |-> 0]

\* initFileState for a file the map does not hold; text is document.getText()
initFileState(c, filePath, text) ==
  IF c.fileStates[filePath].tracked THEN c
  ELSE [c EXCEPT !.fileStates[filePath] =
          [NoFileState EXCEPT !.tracked = TRUE, !.baseline = text, !.current = text]]

getWorkspacePathForFile(filePath) == WorkspaceFolder

\* "reset all tracking state" of a FileState
resetTracking(st) ==
  [st EXCEPT !.hadAgentActivity = FALSE, !.agentSubtype = NULL,
             !.agentInteraction = NoInteraction,
             !.humanTypedChars = 0, !.externalChars = 0]

\* clearTimeout(state.timeout) when state.timeout is set
clearTimer(c, filePath) ==
  LET st == c.fileStates[filePath]
  IN  IF st.timeout = 0 THEN c
      ELSE [c EXCEPT !.timers = {tm \in @ : tm.id # st.timeout}]

\* what flushDiff reads of its FileState after its await
flushReads(st) ==
  [NoFileState EXCEPT !.humanTypedChars = st.humanTypedChars,
                      !.externalChars = st.externalChars,
                      !.hadAgentActivity = st.hadAgentActivity]

\* fileStates.delete(path).  A flushDiff suspended on that FileState keeps
\* its reference to the object, which the map no longer holds and no other
\* handler writes again.
deleteFileState(c, filePath) ==
  [c EXCEPT
     !.fileStates[filePath] = NoFileState,
     !.suspended = [k \in 1..Len(@) |->
        IF @[k].kind = "flush" /\ @[k].filePath = filePath /\ ~@[k].orphaned
        THEN [@[k] EXCEPT !.orphaned = TRUE,
                          !.state = flushReads(c.fileStates[filePath])]
        ELSE @[k]]]

\* the argument of sessionManager.recordEvent, with what the handler logs
\* next to it (the counters and the flag of the FileState) and the monitor
\* as it is at the call: consumed is agentActivityConsumed.  Of the
\* content, fileLines is the lines a file_create or file_delete event lists
\* under its header; the text of a diff is left out, linesAdded and
\* linesRemoved are its counts.
eventRecord(c, source, type, filePath, added, removed, subtype, interaction, st) ==
  [source |-> source, type |-> type, filePath |-> filePath,
   linesAdded |-> added, linesRemoved |-> removed,
   agentSubtype |-> subtype, bubbleId |-> interaction,
   humanTypedChars |-> st.humanTypedChars, externalChars |-> st.externalChars,
   hadAgentActivity |-> st.hadAgentActivity,
   consumed |-> c.mon.agentActivityConsumed,
   stored |-> c.isInitialized,
   fileLines |-> <<>>]

\* agentMonitor.consumeAgentActivity() called by a handler
consume(c) ==
  [c EXCEPT !.mon = consumeAgentActivity(@),
            !.calls.consumeAgentActivity = @ + 1]

\* bug variant: the activity is consumed whatever the source
finishFlush_alwaysConsume(c, filePath, st, orphaned, d, source, subtype, interaction) ==
  LET rec == eventRecord(c, source, "diff", filePath, d.added, d.removed,
                         subtype, interaction, st)
  IN  [consume([c EXCEPT !.lastRecord = rec]) EXCEPT
         !.fileStates[filePath] =
            IF orphaned THEN @ ELSE resetTracking([st EXCEPT !.baseline = st.current]),
         !.tr = clearBuffer(@, filePath)]

\* the end of flushDiff, from "Record event" on.  st is the FileState object
\* the call holds; when the map no longer holds it (orphaned) the writes to
\* it are not seen again.
finishFlush(c, filePath, st, orphaned, d, source, subtype, interaction) ==
  LET rec == eventRecord(c, source, "diff", filePath, d.added, d.removed,
                         subtype, interaction, st)
      c1  == [c EXCEPT !.lastRecord = rec]
  IN  [(IF source = "agent" THEN consume(c1) ELSE c1) EXCEPT
         !.fileStates[filePath] =
            IF orphaned THEN @ ELSE resetTracking([st EXCEPT !.baseline = st.current]),
         !.tr = clearBuffer(@, filePath)]

\* the source determination of flushDiff before any await: "recheck" when
\* the oracle is asked again
\* bug variant: a batch of typed changes is rechecked with the oracle too
flushSource_recheckTyped(st) ==
  IF st.hadAgentActivity THEN "agent" ELSE "recheck"

flushSource(st) ==
  IF st.hadAgentActivity THEN "agent"
  ELSE IF st.externalChars > 0 /\ st.humanTypedChars = 0 THEN "recheck"
  ELSE "human"

\* flushDiff up to its first await, or to its end when it does not await.
\* cont is what the caller does once flushDiff has resolved.
\* bug variant: the agent branch reads the subtype and the interaction of
\* the monitor at the flush
flushDiff_liveOracle(c0, filePath, cont) ==
  LET st0 == c0.fileStates[filePath]
      c   == [clearTimer(c0, filePath) EXCEPT
                !.fileStates[filePath].timeout = 0,
                !.calls.flushDiff = filePath,
                !.calls.unchanged = (st0.baseline = st0.current)]
      st  == c.fileStates[filePath]
      d   == computeDiff(st.baseline, st.current)
  IN  IF ~st0.tracked THEN [c |-> c0, awaits |-> FALSE]
      ELSE IF st.baseline = st.current
      THEN [c |-> [c EXCEPT !.fileStates[filePath] = resetTracking(st),
                            !.tr = clearBuffer(@, filePath)],
            awaits |-> FALSE]
      ELSE IF flushSource(st) = "agent"
      THEN [c |-> finishFlush(c, filePath, st, FALSE, d, "agent",
                              c.mon.lastAgentSubtype, c.mon.lastAgentInteraction),
            awaits |-> FALSE]
      ELSE IF flushSource(st) = "recheck"
      THEN [c |-> [c EXCEPT !.suspended = Append(@,
                     [kind |-> "flush", pc |-> "check", filePath |-> filePath,
                      diff |-> d, cont |-> cont, orphaned |-> FALSE,
                      state |-> NoFileState])],
            awaits |-> TRUE]
      ELSE [c |-> finishFlush(c, filePath, st, FALSE, d, "human", NULL, NoInteraction),
            awaits |-> FALSE]

\* bug variant: without the "skip if no changes" return
flushDiff_noSkip(c0, filePath, cont) ==
  LET st0 == c0.fileStates[filePath]
      c   == [clearTimer(c0, filePath) EXCEPT
                !.fileStates[filePath].timeout = 0,
                !.calls.flushDiff = filePath,
                !.calls.unchanged = (st0.baseline = st0.current)]
      st  == c.fileStates[filePath]
      d   == computeDiff(st.baseline, st.current)
  IN  IF ~st0.tracked THEN [c |-> c0, awaits |-> FALSE]
      ELSE IF flushSource(st) = "agent"
      THEN [c |-> finishFlush(c, filePath, st, FALSE, d, "agent",
                              st.agentSubtype, st.agentInteraction),
            awaits |-> FALSE]
      ELSE IF flushSource(st) = "recheck"
      THEN [c |-> [c EXCEPT !.suspended = Append(@,
                     [kind |-> "flush", pc |-> "check", filePath |-> filePath,
                      diff |-> d, cont |-> cont, orphaned |-> FALSE,
                      state |-> NoFileState])],
            awaits |-> TRUE]
      ELSE [c |-> finishFlush(c, filePath, st, FALSE, d, "human", NULL, NoInteraction),
            awaits |-> FALSE]

flushDiff(c0, filePath, cont) ==
  LET st0 == c0.fileStates[filePath]
      c   == [clearTimer(c0, filePath) EXCEPT
                !.fileStates[filePath].timeout = 0,
                !.calls.flushDiff = filePath,
                !.calls.unchanged = (st0.baseline = st0.current)]
      st  == c.fileStates[filePath]
      d   == computeDiff(st.baseline, st.current)
  IN  IF ~st0.tracked THEN [c |-> c0, awaits |-> FALSE]
      ELSE IF st.baseline = st.current
      THEN [c |-> [c EXCEPT !.fileStates[filePath] = resetTracking(st),
                            !.tr = clearBuffer(@, filePath)],
            awaits |-> FALSE]
      ELSE IF flushSource(st) = "agent"
      THEN [c |-> finishFlush(c, filePath, st, FALSE, d, "agent",
                              st.agentSubtype, st.agentInteraction),
            awaits |-> FALSE]
      ELSE IF flushSource(st) = "recheck"
      THEN [c |-> [c EXCEPT !.suspended = Append(@,
                     [kind |-> "flush", pc |-> "check", filePath |-> filePath,
                      diff |-> d, cont |-> cont, orphaned |-> FALSE,
                      state |-> NoFileState])],
            awaits |-> TRUE]
      ELSE [c |-> finishFlush(c, filePath, st, FALSE, d, "human", NULL, NoInteraction),
            awaits |-> FALSE]

\* s without its k-th element
removeAt(s, k) == SubSeq(s, 1, k - 1) \o SubSeq(s, k + 1, Len(s))

\* flushDiff from the return of forceCheckForAgentActivity to its end
\* bug variant: the oracle is not asked after the recheck
resumeFlush_alwaysHuman(c, k, t) ==
  LET e  == c.suspended[k]
      st == IF e.orphaned THEN e.state ELSE c.fileStates[e.filePath]
  IN  finishFlush([c EXCEPT !.suspended = removeAt(@, k)], e.filePath, st, e.orphaned,
                  e.diff, "human", NULL, NoInteraction)

resumeFlush(c, k, t) ==
  LET e      == c.suspended[k]
      st     == IF e.orphaned THEN e.state ELSE c.fileStates[e.filePath]
      ws     == getWorkspacePathForFile(e.filePath)
      active == isAgentActive(c.mon, ws, t)
  IN  finishFlush([c EXCEPT !.suspended = removeAt(@, k)], e.filePath, st, e.orphaned,
                  e.diff,
                  IF active THEN "agent" ELSE "human",
                  IF active THEN getAgentSubtype(c.mon, ws, t) ELSE NULL,
                  IF active THEN getAgentInteraction(c.mon, ws, t) ELSE NoInteraction)

\* what the caller of flushDiff does after "await this.flushDiff(...)":
\*   timer            nothing
\*   dispose          when the last of dispose's flushes has resolved,
\*                    fileStates.clear()
\*   close            onDocumentClose deletes the FileState
\*   switch           onFileSwitch sets activeFile and initialises the
\*                    editor's FileState; text is its document.getText()
NoCont == [kind |-> "none", target |-> NULL]

\* fileStates.clear()
RECURSIVE clearFileStates(_, _)
clearFileStates(c, files) ==
  IF files = {} THEN c
  ELSE LET f == CHOOSE g \in files : TRUE
       IN  clearFileStates(deleteFileState(c, f), files \ {f})

\* a flushDiff that dispose called has not resolved yet
disposePending(c) ==
  \E k \in 1..Len(c.suspended) :
    c.suspended[k].kind = "flush" /\ c.suspended[k].cont.kind = "dispose"

afterFlush(c, cont, text) ==
  IF cont.kind = "close" THEN deleteFileState(c, cont.target)
  ELSE IF cont.kind = "dispose"
  THEN IF disposePending(c) THEN c ELSE clearFileStates(c, Files)
  ELSE IF cont.kind = "switch"
  THEN IF cont.target # NULL
       THEN initFileState([c EXCEPT !.activeFile = cont.target], cont.target, text)
       ELSE [c EXCEPT !.activeFile = NULL]
  ELSE c

\* a handler that calls flushDiff and continues when it has resolved
flushThen(c, filePath, cont, text) ==
  LET r == flushDiff(c, filePath, cont)
  IN  IF r.awaits THEN r.c ELSE afterFlush(r.c, cont, text)

\* DiffCollector.dispose: flushDiff for every key of the map, each up to
\* its first await, then BaseCollector.dispose.  files is the keys not yet
\* visited.
RECURSIVE disposeLoop(_, _)
disposeLoop(c, files) ==
  IF files = {} THEN c
  ELSE LET f == CHOOSE g \in files : TRUE
       IN  disposeLoop(flushDiff(c, f, [kind |-> "dispose", target |-> NULL]).c,
                       files \ {f})

dispose(c) == disposeLoop(c, {f \in Files : c.fileStates[f].tracked})

\* SessionManager.shutdown
shutdown(c) == [c EXCEPT !.isInitialized = FALSE]

\* deactivate, and the callback of Promise.all(...).finally when no flush
\* is waiting: it runs before any other handler
deactivate(c) ==
  afterFlush(shutdown(dispose(c)), [kind |-> "dispose", target |-> NULL], <<>>)

\* the id setTimeout returns: one no pending timer and no FileState holds
setTimeout(c) ==
  LET used == {tm.id : tm \in c.timers} \cup {c.fileStates[f].timeout : f \in Files}
  IN  CHOOSE id \in 1..(Cardinality(used) + 1) :
        /\ id \notin used
        /\ \A other \in 1..(id - 1) : other \in used

\* onDocumentChange for a non-empty event; text is document.getText()
onDocumentChange(c0, filePath, addedText, text, t) ==
  LET c  == initFileState(c0, filePath, text)
      ws == getWorkspacePathForFile(filePath)
      classified == classifyChange(c.tr, filePath, addedText, t)
      classification == classified.classification
      active == isAgentActive(c.mon, ws, t)
      st0 == [c.fileStates[filePath] EXCEPT !.current = text]
      st1 == IF classification.type = "human"
             THEN [st0 EXCEPT !.humanTypedChars = @ + classification.humanChars]
             ELSE IF active
             THEN [st0 EXCEPT !.externalChars = @ + classification.externalChars,
                              !.hadAgentActivity = TRUE,
                              !.agentSubtype = getAgentSubtype(c.mon, ws, t),
                              !.agentInteraction = getAgentInteraction(c.mon, ws, t)]
             ELSE [st0 EXCEPT !.externalChars = @ + classification.externalChars]
      id == setTimeout(c)
  IN  [clearTimer(c, filePath) EXCEPT
         !.tr = classified.tr,
         !.fileStates[filePath] = [st1 EXCEPT !.timeout = id],
         !.timers = @ \cup {[id |-> id, filePath |-> filePath, due |-> t + DEBOUNCE_MS]}]

\* bug variant: the last line of the file is not listed
diffLines_dropLast(prefix, lines) ==
  [k \in 1..(Len(lines) - 1) |-> prefix \o lines[k]]

\* lines.map(line => `+ ${line}`), lines.map(line => `- ${line}`)
diffLines(prefix, lines) ==
  [k \in 1..Len(lines) |-> prefix \o lines[k]]

\* onFileDelete
onFileDelete(c, filePath, t) ==
  LET ws          == getWorkspacePathForFile(filePath)
      source      == getSource(c.mon, ws, t)
      subtype     == IF source = "agent" THEN getAgentSubtype(c.mon, ws, t) ELSE NULL
      interaction == IF source = "agent" THEN getAgentInteraction(c.mon, ws, t)
                     ELSE NoInteraction
      st          == c.fileStates[filePath]
      lines       == split(st.baseline)
      rec         == IF st.tracked
                     THEN [eventRecord(c, source, "file_delete", filePath,
                                       0, Len(lines), subtype, interaction, st)
                             EXCEPT !.fileLines = diffLines(<<"-", SP>>, lines)]
                     ELSE eventRecord(c, source, "file_delete", filePath,
                                      0, 0, subtype, interaction, NoFileState)
      c1          == IF st.tracked
                     THEN deleteFileState(clearTimer(c, filePath), filePath)
                     ELSE c
      c2          == [c1 EXCEPT !.lastRecord = rec]
  IN  IF source = "agent" THEN consume(c2) ELSE c2

\* onFileCreate up to "await vscode.workspace.fs.readFile(uri)"
onFileCreate(c, filePath, t) ==
  LET ws     == getWorkspacePathForFile(filePath)
      source == getSource(c.mon, ws, t)
  IN  [c EXCEPT !.suspended = Append(@,
         [kind |-> "create", pc |-> "read", filePath |-> filePath,
          source |-> source,
          agentSubtype |-> IF source = "agent" THEN getAgentSubtype(c.mon, ws, t)
                           ELSE NULL,
          agentInteraction |-> IF source = "agent"
                               THEN getAgentInteraction(c.mon, ws, t)
                               ELSE NoInteraction])]

\* onFileCreate after the read: text is the decoded content, readable is
\* FALSE when the read or the decoding throws
resumeFileCreate(c, k, text, readable) ==
  LET e     == c.suspended[k]
      lines == split(text)
      rec   == IF readable
               THEN [eventRecord(c, e.source, "file_create", e.filePath,
                                 Len(lines), 0, e.agentSubtype, e.agentInteraction,
                                 NoFileState)
                       EXCEPT !.fileLines = diffLines(<<"+", SP>>, lines)]
               ELSE eventRecord(c, e.source, "file_create", e.filePath,
                                0, 0, e.agentSubtype, e.agentInteraction, NoFileState)
      c1    == [c EXCEPT !.suspended = removeAt(@, k), !.lastRecord = rec]
  IN  IF e.source = "agent" THEN consume(c1) ELSE c1

----------------------------------------------------------------------------
(* Initial state *)

\* lastChange when the last call was not classifyChange
NoChange ==
  [filePath |-> NULL, addedText |-> <<>>, pendingHumanText |-> <<>>,
   tabLive |-> FALSE, looksLikeCompletion |-> FALSE, classification |-> external(0)]

InitTracker ==
  /\ pendingInputs = <<>>
  /\ humanInputBuffer = [f \in Files |-> <<>>]
  /\ pendingTab = NoTab
  /\ keystrokes = 0
  /\ lastChange = NoChange

NoDiff == [text |-> <<>>, added |-> 0, removed |-> 0]

InitNoDiff ==
  /\ oldText = <<>>
  /\ newText = <<>>
  /\ diffDone = FALSE
  /\ diff = NoDiff

\* the monitor as constructed
NoMonitor ==
  [agentActivityConsumed |-> FALSE, newActivityDetectedAt |-> 0,
   lastAgentSubtype |-> NULL, lastAgentInteraction |-> NoInteraction,
   lastWorkspaceFsPath |-> NoPath, lastKnownBubbleTimestamp |-> 0,
   lastKnownGenerationTime |-> 0, lastKnownInlineDiffCount |-> 0,
   activations |-> 0]

NoDb ==
  [bubbleTimestamp |-> 0, generations |-> 0, generation |-> NoGeneration,
   inlineDiffCount |-> 0]

InitMonitor ==
  /\ agentMonitor = NoMonitor
  /\ cursorDb = NoDb

\* lastRecord when the last handler recorded no event
NoRecord ==
  [source |-> NULL, type |-> NULL, filePath |-> NULL,
   linesAdded |-> 0, linesRemoved |-> 0, agentSubtype |-> NULL,
   bubbleId |-> NoInteraction, humanTypedChars |-> 0, externalChars |-> 0,
   hadAgentActivity |-> FALSE, consumed |-> FALSE, stored |-> FALSE,
   fileLines |-> <<>>]

\* lastCalls when the handler called neither flushDiff on a FileState nor
\* consumeAgentActivity, and no read of Cursor's databases failed in it
NoCalls ==
  [flushDiff |-> NULL, unchanged |-> FALSE, consumeAgentActivity |-> 0,
   failedReads |-> {}]

\* the collector as registered with no editor open
\* no session: the sessions of the database are followed in the
\* specification of the session manager only
NoSession == 0

InitSessions ==
  /\ currentSession = NoSession
  /\ lastActivityTime = 0
  /\ sessions = <<>>
  /\ savedSessions = <<>>

InitCollector ==
  /\ fileStates = [f \in Files |-> NoFileState]
  /\ timers = {}
  /\ activeFile = NULL
  /\ suspended = <<>>
  /\ lastRecord = NoRecord
  /\ lastCalls = NoCalls
  /\ isInitialized = TRUE
  /\ InitSessions

----------------------------------------------------------------------------
(* Specification of the typed-input tracker alone: keystrokes, Tab         *)
(* signals, document changes and buffer clears in any order, the clock     *)
(* advancing by one expiry window.                                         *)

tracker ==
  [pendingInputs |-> pendingInputs, humanInputBuffer |-> humanInputBuffer,
   pendingTab |-> pendingTab]

setTracker(tr) ==
  /\ pendingInputs' = tr.pendingInputs
  /\ humanInputBuffer' = tr.humanInputBuffer
  /\ pendingTab' = tr.pendingTab

\* what classifyChange logs on entry and what it returns
changeLog(tr0, filePath, addedText, t) ==
  LET tr == cleanupExpiredInputs(tr0, t)
  IN  [filePath            |-> filePath,
       addedText           |-> addedText,
       pendingHumanText    |-> tr.humanInputBuffer[filePath],
       tabLive             |-> tabIsLive(tr, filePath, t),
       looksLikeCompletion |-> detectPossibleCompletion(tr, filePath, addedText, t),
       classification      |-> classifyChange(tr0, filePath, addedText, t).classification]

str_foo == <<"f", "o", "o">>
str_foo_bar_baz == <<"f", "o", "o", SP, "b", "a", "r", SP, "b", "a", "z">>
str_function_foo == <<"f", "u", "n", "c", "t", "i", "o", "n", SP, "f", "o", "o", "(", ")", SP, "{">>
spaces(n) == [i \in 1..n |-> SP]

\* the texts of the type commands (one command may carry several characters)
TypedTexts == {<<"f">>, <<"o", "o">>, <<TAB>>}

\* the texts document changes add
AddedTexts ==
  {<<>>, <<"f">>, <<"o">>, <<"f", "o">>, str_foo, str_foo_bar_baz, str_function_foo,
   <<TAB>>, <<"f", TAB>>, spaces(2), spaces(8), spaces(9)}

Type(filePath, text) ==
  /\ keystrokes < MaxKeystrokes
  /\ keystrokes' = keystrokes + 1
  /\ setTracker(onType(tracker, filePath, text, now))
  /\ lastChange' = NoChange
  /\ UNCHANGED <<now, diffVars, monitorVars, collectorVars>>
  /\ UNCHANGED sessionVars

TabPressed(filePath) ==
  /\ setTracker(markTabPressed(tracker, filePath, now))
  /\ lastChange' = NoChange
  /\ UNCHANGED <<now, keystrokes, diffVars, monitorVars, collectorVars>>
  /\ UNCHANGED sessionVars

Change(filePath, addedText) ==
  /\ setTracker(classifyChange(tracker, filePath, addedText, now).tr)
  /\ lastChange' = changeLog(tracker, filePath, addedText, now)
  /\ UNCHANGED <<now, keystrokes, diffVars, monitorVars, collectorVars>>
  /\ UNCHANGED sessionVars

ClearBuffer(filePath) ==
  /\ setTracker(clearBuffer(tracker, filePath))
  /\ lastChange' = NoChange
  /\ UNCHANGED <<now, keystrokes, diffVars, monitorVars, collectorVars>>
  /\ UNCHANGED sessionVars

TrackerTick ==
  /\ now + INPUT_EXPIRY_MS <= MaxTrackerTicks * INPUT_EXPIRY_MS
  /\ now' = now + INPUT_EXPIRY_MS
  /\ lastChange' = NoChange
  /\ UNCHANGED <<pendingInputs, humanInputBuffer, pendingTab, keystrokes, diffVars, monitorVars, collectorVars>>
  /\ UNCHANGED sessionVars

InitTrackerSpec == now = 0 /\ InitTracker /\ InitNoDiff /\ InitMonitor /\ InitCollector

NextTracker ==
  \/ \E f \in Files, text \in TypedTexts : Type(f, text)
  \/ \E f \in Files : TabPressed(f)
  \/ \E f \in Files, addedText \in AddedTexts : Change(f, addedText)
  \/ \E f \in Files : ClearBuffer(f)
  \/ TrackerTick

SpecTracker == InitTrackerSpec /\ [][NextTracker]_vars

----------------------------------------------------------------------------
(* Specification of the diff engine alone: computeDiff applied to every    *)
(* pair of texts up to MaxTextLen characters.                              *)

TextChars == {"a", "b", NL}

RECURSIVE SeqsUpTo(_, _)
SeqsUpTo(S, n) ==
  IF n = 0 THEN {<<>>}
  ELSE LET shorter == SeqsUpTo(S, n - 1)
       IN  shorter \cup {Append(s, c) : s \in {t \in shorter : Len(t) = n - 1}, c \in S}

Texts == SeqsUpTo(TextChars, MaxTextLen)

\* a one-line replacement in the middle of three lines
str_a_b_c == <<"a", NL, "b", NL, "c">>
str_a_x_c == <<"a", NL, "x", NL, "c">>

DiffInputs == Texts \cup {str_a_b_c, str_a_x_c}

InitDiff ==
  /\ now = 0
  /\ InitTracker
  /\ InitMonitor
  /\ InitCollector
  /\ oldText \in DiffInputs
  /\ newText \in DiffInputs
  /\ diffDone = FALSE
  /\ diff = NoDiff

ComputeDiff ==
  /\ ~diffDone
  /\ diffDone' = TRUE
  /\ diff' = computeDiff(oldText, newText)
  /\ UNCHANGED <<oldText, newText, now, trackerVars, monitorVars, collectorVars>>
  /\ UNCHANGED sessionVars

NextDiff == ComputeDiff

SpecDiff == InitDiff /\ [][NextDiff]_vars

----------------------------------------------------------------------------
(* Specification of the collector: the editor's events (keystrokes,        *)
(* document changes, opens, closes, editor switches, file creations and    *)
(* deletions), the debounce timers and the monitor's polls, interleaved    *)
(* with the agent's writes to Cursor's databases and the passing of time.  *)
(* A handler runs to its end or to its next await in one step.  The agent  *)
(* writes AI bubbles here; the monitor's other two channels are exercised  *)
(* in SpecMonitor.                                                         *)

\* Date.now() when the extension is activated
StartTime == 10 * RECENT_AGENT_ACTIVITY_MS

\* the clock advances by one debounce window
ClockStep == DEBOUNCE_MS

collector ==
  [fileStates |-> fileStates, timers |-> timers, activeFile |-> activeFile,
   suspended |-> suspended, mon |-> agentMonitor, tr |-> tracker,
   lastRecord |-> NoRecord, calls |-> NoCalls, isInitialized |-> isInitialized]

\* the handler's writes, within the bounds and at most timerLimit timers
setCollectorWithin(c, timerLimit) ==
  /\ Len(c.suspended) <= MaxSuspended
  /\ Cardinality(c.timers) <= timerLimit
  /\ \A f \in Files : /\ c.fileStates[f].humanTypedChars <= MaxChars
                      /\ c.fileStates[f].externalChars <= MaxChars
  /\ fileStates' = c.fileStates
  /\ timers' = c.timers
  /\ activeFile' = c.activeFile
  /\ suspended' = c.suspended
  /\ agentMonitor' = c.mon
  /\ lastRecord' = c.lastRecord
  /\ lastCalls' = c.calls
  /\ isInitialized' = c.isInitialized
  /\ setTracker(c.tr)

setCollector(c) ==
  /\ Len(c.suspended) <= MaxSuspended
  /\ Cardinality(c.timers) <= MaxTimers
  /\ \A f \in Files : /\ c.fileStates[f].humanTypedChars <= MaxChars
                      /\ c.fileStates[f].externalChars <= MaxChars
  /\ fileStates' = c.fileStates
  /\ timers' = c.timers
  /\ activeFile' = c.activeFile
  /\ suspended' = c.suspended
  /\ agentMonitor' = c.mon
  /\ lastRecord' = c.lastRecord
  /\ lastCalls' = c.calls
  /\ isInitialized' = c.isInitialized
  /\ setTracker(c.tr)

\* the texts of the type commands
KeyTexts == {<<"f">>}

\* the texts document changes add
ChangeTexts == {<<"f">>}

\* the contents documents and files have
DocTexts == {<<"a">>, <<"a", NL, "b">>}

\* the type command; filePath is the file of the active text editor
UserType(filePath, text) ==
  /\ isInitialized
  /\ keystrokes < MaxTyped
  /\ keystrokes' = keystrokes + 1
  /\ setTracker(onType(tracker, filePath, text, now))
  /\ lastChange' = NoChange
  /\ lastRecord' = NoRecord
  /\ lastCalls' = NoCalls
  /\ UNCHANGED isInitialized
  /\ UNCHANGED <<now, diffVars, monitorVars, fileStates, timers, activeFile, suspended>>
  /\ UNCHANGED sessionVars

\* onDidChangeTextDocument
DocumentChange(filePath, addedText, text) ==
  /\ isInitialized
  /\ setCollector(onDocumentChange(collector, filePath, addedText, text, now))
  /\ lastChange' = changeLog(tracker, filePath, addedText, now)
  /\ UNCHANGED <<now, keystrokes, cursorDb, diffVars>>
  /\ UNCHANGED sessionVars

\* onDidOpenTextDocument
DocumentOpen(filePath, text) ==
  /\ isInitialized
  /\ ~fileStates[filePath].tracked
  /\ setCollector(initFileState(collector, filePath, text))
  /\ lastChange' = NoChange
  /\ UNCHANGED <<now, keystrokes, cursorDb, diffVars>>
  /\ UNCHANGED sessionVars

\* onDidCloseTextDocument
DocumentClose(filePath) ==
  /\ isInitialized
  /\ fileStates[filePath].tracked
  /\ setCollector(flushThen(collector, filePath,
                            [kind |-> "close", target |-> filePath], <<>>))
  /\ lastChange' = NoChange
  /\ UNCHANGED <<now, keystrokes, cursorDb, diffVars>>
  /\ UNCHANGED sessionVars

\* onDidChangeActiveTextEditor: to the editor of file target, or to none
FileSwitch(target, text) ==
  LET cont == [kind |-> "switch", target |-> target]
  IN  /\ isInitialized
      /\ setCollector(IF activeFile # NULL
                      THEN flushThen(collector, activeFile, cont, text)
                      ELSE afterFlush(collector, cont, text))
      /\ lastChange' = NoChange
      /\ UNCHANGED <<now, keystrokes, cursorDb, diffVars>>
      /\ UNCHANGED sessionVars

\* a debounce timer fires
FlushTimer(tm) ==
  /\ tm.due <= now
  /\ setCollector(flushThen([collector EXCEPT !.timers = @ \ {tm}],
                            tm.filePath, NoCont, <<>>))
  /\ lastChange' = NoChange
  /\ UNCHANGED <<now, keystrokes, cursorDb, diffVars>>
  /\ UNCHANGED sessionVars

\* forceCheckForAgentActivity called by the k-th suspended handler: the
\* poll's reads and marks
ForceCheck(k) ==
  /\ suspended[k].kind = "flush"
  /\ suspended[k].pc = "check"
  /\ agentMonitor' = checkForAgentActivity(agentMonitor, cursorDb, now)
  /\ suspended' = [suspended EXCEPT ![k].pc = "resume"]
  /\ lastChange' = NoChange
  /\ lastRecord' = NoRecord
  /\ lastCalls' = NoCalls
  /\ UNCHANGED isInitialized
  /\ UNCHANGED <<now, pendingInputs, humanInputBuffer, pendingTab, keystrokes,
                 diffVars, cursorDb, fileStates, timers, activeFile>>
  /\ UNCHANGED sessionVars

\* the k-th suspended handler, a flushDiff whose forced check has resolved,
\* runs to its end, and its caller after it
FlushResume(k, text) ==
  /\ suspended[k].kind = "flush"
  /\ suspended[k].pc = "resume"
  /\ setCollector(afterFlush(resumeFlush(collector, k, now), suspended[k].cont, text))
  /\ lastChange' = NoChange
  /\ UNCHANGED <<now, keystrokes, cursorDb, diffVars>>
  /\ UNCHANGED sessionVars

\* the file watcher's onDidCreate
FileCreate(filePath) ==
  /\ isInitialized
  /\ setCollector(onFileCreate(collector, filePath, now))
  /\ lastChange' = NoChange
  /\ UNCHANGED <<now, keystrokes, cursorDb, diffVars>>
  /\ UNCHANGED sessionVars

\* the read of the created file resolves or rejects
FileCreateRead(k, text, readable) ==
  /\ suspended[k].kind = "create"
  /\ setCollector(resumeFileCreate(collector, k, text, readable))
  /\ lastChange' = NoChange
  /\ UNCHANGED <<now, keystrokes, cursorDb, diffVars>>
  /\ UNCHANGED sessionVars

\* the file watcher's onDidDelete
FileDelete(filePath) ==
  /\ isInitialized
  /\ setCollector(onFileDelete(collector, filePath, now))
  /\ lastChange' = NoChange
  /\ UNCHANGED <<now, keystrokes, cursorDb, diffVars>>
  /\ UNCHANGED sessionVars

\* the extension host deactivates the extension
Deactivate ==
  /\ isInitialized
  /\ setCollector(deactivate(collector))
  /\ lastChange' = NoChange
  /\ UNCHANGED <<now, keystrokes, cursorDb, diffVars>>
  /\ UNCHANGED sessionVars

\* the monitor's interval timer
Poll ==
  /\ agentMonitor' = checkForAgentActivity(agentMonitor, cursorDb, now)
  /\ agentMonitor' # agentMonitor
  /\ lastChange' = NoChange
  /\ lastRecord' = NoRecord
  /\ lastCalls' = NoCalls
  /\ UNCHANGED isInitialized
  /\ UNCHANGED <<now, pendingInputs, humanInputBuffer, pendingTab, keystrokes,
                 diffVars, cursorDb, fileStates, timers, activeFile, suspended>>
  /\ UNCHANGED sessionVars

agentEvents == cursorDb.bubbleTimestamp + cursorDb.generations + cursorDb.inlineDiffCount

\* the agent answers in the composer: a new AI bubble
AgentBubble(limit) ==
  /\ agentEvents < limit
  /\ cursorDb' = [cursorDb EXCEPT !.bubbleTimestamp = @ + 1]
  /\ lastChange' = NoChange
  /\ lastRecord' = NoRecord
  /\ lastCalls' = NoCalls
  /\ UNCHANGED isInitialized
  /\ UNCHANGED <<now, pendingInputs, humanInputBuffer, pendingTab, keystrokes,
                 diffVars, agentMonitor, fileStates, timers, activeFile, suspended>>
  /\ UNCHANGED sessionVars

\* the workspace database shows an AI generation of the given type, logged
\* age ms ago
AgentGeneration(limit, type, age) ==
  /\ agentEvents < limit
  /\ now - age > cursorDb.generation.unixMs
  /\ cursorDb' = [cursorDb EXCEPT !.generations = @ + 1,
                                  !.generation = [unixMs |-> now - age, type |-> type]]
  /\ lastChange' = NoChange
  /\ lastRecord' = NoRecord
  /\ lastCalls' = NoCalls
  /\ UNCHANGED isInitialized
  /\ UNCHANGED <<now, pendingInputs, humanInputBuffer, pendingTab, keystrokes,
                 diffVars, agentMonitor, fileStates, timers, activeFile, suspended>>
  /\ UNCHANGED sessionVars

\* Cmd+K leaves an inline diff
AgentInlineDiff(limit) ==
  /\ agentEvents < limit
  /\ cursorDb' = [cursorDb EXCEPT !.inlineDiffCount = @ + 1]
  /\ lastChange' = NoChange
  /\ lastRecord' = NoRecord
  /\ lastCalls' = NoCalls
  /\ UNCHANGED isInitialized
  /\ UNCHANGED <<now, pendingInputs, humanInputBuffer, pendingTab, keystrokes,
                 diffVars, agentMonitor, fileStates, timers, activeFile, suspended>>
  /\ UNCHANGED sessionVars

\* time passes; a timer that is due fires first
Tick ==
  /\ now + ClockStep <= StartTime + MaxClockTicks * ClockStep
  /\ \A tm \in timers : tm.due > now
  /\ now' = now + ClockStep
  /\ lastChange' = NoChange
  /\ lastRecord' = NoRecord
  /\ lastCalls' = NoCalls
  /\ UNCHANGED isInitialized
  /\ UNCHANGED <<pendingInputs, humanInputBuffer, pendingTab, keystrokes,
                 diffVars, monitorVars, fileStates, timers, activeFile, suspended>>
  /\ UNCHANGED sessionVars

\* the documents the editor opens; the file watcher reports every file
Documents == {"f1"}

Init ==
  /\ now = StartTime
  /\ InitTracker
  /\ InitNoDiff
  /\ InitMonitor
  /\ InitCollector

Next ==
  \/ \E f \in Documents, text \in KeyTexts : UserType(f, text)
  \/ \E f \in Documents, addedText \in ChangeTexts, text \in DocTexts :
       DocumentChange(f, addedText, text)
  \/ \E f \in Documents, text \in DocTexts : DocumentOpen(f, text)
  \/ \E f \in Documents : DocumentClose(f)
  \/ \E target \in Documents \cup {NULL}, text \in DocTexts : FileSwitch(target, text)
  \/ \E tm \in timers : FlushTimer(tm)
  \/ \E k \in 1..Len(suspended) : ForceCheck(k)
  \/ \E k \in 1..Len(suspended), text \in DocTexts : FlushResume(k, text)
  \/ \E f \in Files : FileCreate(f)
  \/ \E k \in 1..Len(suspended), text \in DocTexts, readable \in BOOLEAN :
       FileCreateRead(k, text, readable)
  \/ \E f \in Files : FileDelete(f)
  \/ Deactivate
  \/ Poll
  \/ AgentBubble(MaxAgentEvents)
  \/ Tick

Spec == Init /\ [][Next]_vars

----------------------------------------------------------------------------
(* Specification of the monitor alone: the agent's writes on the three     *)
(* channels the poll reads, the polls, a handler consuming the activity    *)
(* and the passing of time.                                                *)

\* the monitor's clock advances by half a recency window
MonitorStep == RECENT_AGENT_ACTIVITY_MS \div 2

\* a handler has attributed a change to the agent
ConsumeAgentActivity ==
  /\ agentMonitor' = consumeAgentActivity(agentMonitor)
  /\ agentMonitor' # agentMonitor
  /\ lastChange' = NoChange
  /\ lastRecord' = NoRecord
  /\ lastCalls' = NoCalls
  /\ UNCHANGED isInitialized
  /\ UNCHANGED <<now, pendingInputs, humanInputBuffer, pendingTab, keystrokes,
                 diffVars, cursorDb, fileStates, timers, activeFile, suspended>>
  /\ UNCHANGED sessionVars

MonitorTick ==
  /\ now + MonitorStep <= StartTime + MaxMonitorTicks * MonitorStep
  /\ now' = now + MonitorStep
  /\ lastChange' = NoChange
  /\ lastRecord' = NoRecord
  /\ lastCalls' = NoCalls
  /\ UNCHANGED isInitialized
  /\ UNCHANGED <<pendingInputs, humanInputBuffer, pendingTab, keystrokes,
                 diffVars, monitorVars, fileStates, timers, activeFile, suspended>>
  /\ UNCHANGED sessionVars

\* how long ago a generation the poll finds was logged
GenerationAges == {0, 30000}

NextMonitor ==
  \/ Poll
  \/ AgentBubble(MaxMonitorEvents)
  \/ \E type \in {"cmdk", "composer"}, age \in GenerationAges :
       AgentGeneration(MaxMonitorEvents, type, age)
  \/ AgentInlineDiff(MaxMonitorEvents)
  \/ ConsumeAgentActivity
  \/ MonitorTick

SpecMonitor == Init /\ [][NextMonitor]_vars

----------------------------------------------------------------------------
(* Specification of a batch of agent changes: the agent writes bubbles and *)
(* inline diffs, so that the monitor is marked active again with another   *)
(* subtype and interaction while a batch is pending.                       *)

NextCapture ==
  \/ \E f \in Documents, text \in DocTexts : DocumentOpen(f, text)
  \/ \E f \in Documents, addedText \in ChangeTexts, text \in DocTexts :
       DocumentChange(f, addedText, text)
  \/ \E f \in Documents : DocumentClose(f)
  \/ \E tm \in timers : FlushTimer(tm)
  \/ \E k \in 1..Len(suspended) : ForceCheck(k)
  \/ \E k \in 1..Len(suspended), text \in DocTexts : FlushResume(k, text)
  \/ \E f \in Files : FileDelete(f)
  \/ Poll
  \/ AgentBubble(MaxMonitorEvents)
  \/ AgentInlineDiff(MaxMonitorEvents)
  \/ Tick

SpecCapture == Init /\ [][NextCapture]_vars

----------------------------------------------------------------------------
(* Specification of the debounce timers of one document: it is opened,     *)
(* typed in, changed and closed, its timers fire and its flushes wait for  *)
(* their recheck, with up to MaxPendingTimers timers set and neither       *)
(* cleared nor fired.                                                      *)

TimersOpen(filePath, text) ==
  /\ ~fileStates[filePath].tracked
  /\ setCollectorWithin(initFileState(collector, filePath, text), MaxPendingTimers)
  /\ lastChange' = NoChange
  /\ UNCHANGED <<now, keystrokes, cursorDb, diffVars>>
  /\ UNCHANGED sessionVars

TimersChange(filePath, addedText, text) ==
  /\ setCollectorWithin(onDocumentChange(collector, filePath, addedText, text, now),
                        MaxPendingTimers)
  /\ lastChange' = changeLog(tracker, filePath, addedText, now)
  /\ UNCHANGED <<now, keystrokes, cursorDb, diffVars>>
  /\ UNCHANGED sessionVars

TimersClose(filePath) ==
  /\ fileStates[filePath].tracked
  /\ setCollectorWithin(flushThen(collector, filePath,
                                  [kind |-> "close", target |-> filePath], <<>>),
                        MaxPendingTimers)
  /\ lastChange' = NoChange
  /\ UNCHANGED <<now, keystrokes, cursorDb, diffVars>>
  /\ UNCHANGED sessionVars

TimersFire(tm) ==
  /\ tm.due <= now
  /\ setCollectorWithin(flushThen([collector EXCEPT !.timers = @ \ {tm}],
                                  tm.filePath, NoCont, <<>>),
                        MaxPendingTimers)
  /\ lastChange' = NoChange
  /\ UNCHANGED <<now, keystrokes, cursorDb, diffVars>>
  /\ UNCHANGED sessionVars

TimersResume(k, text) ==
  /\ suspended[k].kind = "flush"
  /\ suspended[k].pc = "resume"
  /\ setCollectorWithin(afterFlush(resumeFlush(collector, k, now),
                                   suspended[k].cont, text),
                        MaxPendingTimers)
  /\ lastChange' = NoChange
  /\ UNCHANGED <<now, keystrokes, cursorDb, diffVars>>
  /\ UNCHANGED sessionVars

NextTimers ==
  \/ \E f \in Documents, text \in KeyTexts : UserType(f, text)
  \/ \E f \in Documents, text \in DocTexts : TimersOpen(f, text)
  \/ \E f \in Documents, addedText \in ChangeTexts, text \in DocTexts :
       TimersChange(f, addedText, text)
  \/ \E f \in Documents : TimersClose(f)
  \/ \E tm \in timers : TimersFire(tm)
  \/ \E k \in 1..Len(suspended) : ForceCheck(k)
  \/ \E k \in 1..Len(suspended), text \in DocTexts : TimersResume(k, text)
  \/ Tick

SpecTimers == Init /\ [][NextTimers]_vars

\* The event loop runs what is ready: a flushDiff whose forced check has
\* returned continues, and time passes.  Nothing makes the forced check
\* return: it awaits reads of Cursor's databases with no timeout, so
\* ForceCheck has no fairness condition.
SpecTimersFair ==
  /\ SpecTimers
  /\ WF_vars(\E k \in 1..Len(suspended), text \in DocTexts : TimersResume(k, text))
  /\ WF_vars(Tick)

----------------------------------------------------------------------------
(* Specification of the monitor's reads failing: Cursor's global database  *)
(* (bubbles, interactions, inline diffs) and the workspace database (AI    *)
(* generations) can each be unreadable during a poll or a forced recheck   *)
(* of a flush, while the agent writes on the three channels.               *)

\* reads fail while fewer than MaxActivations activations are recorded
MaxActivations == 2

\* the databases the reads open
Sources == {"global", "workspace"}

\* bug variant: a read that fails is taken to have succeeded
readCursorDb_ignoreFailure(db, failed) == db

\* what the reads return when the databases in failed cannot be read: each
\* read catches its error and returns null, [] or 0
readCursorDb(db, failed) ==
  [db EXCEPT
     !.bubbleTimestamp = IF "global" \in failed THEN 0 ELSE @,
     !.inlineDiffCount = IF "global" \in failed THEN 0 ELSE @,
     !.generation = IF "workspace" \in failed THEN NoGeneration ELSE @]

\* the monitor's interval timer, with reads that fail
PollFailing(failed) ==
  /\ agentMonitor.activations < MaxActivations
  /\ agentMonitor' = checkForAgentActivity(agentMonitor, readCursorDb(cursorDb, failed), now)
  /\ lastChange' = NoChange
  /\ lastRecord' = NoRecord
  /\ lastCalls' = [NoCalls EXCEPT !.failedReads = failed]
  /\ UNCHANGED isInitialized
  /\ UNCHANGED <<now, pendingInputs, humanInputBuffer, pendingTab, keystrokes,
                 diffVars, cursorDb, fileStates, timers, activeFile, suspended>>
  /\ UNCHANGED sessionVars

\* forceCheckForAgentActivity called by the k-th suspended handler, with
\* reads that fail
ForceCheckFailing(k, failed) ==
  /\ agentMonitor.activations < MaxActivations
  /\ suspended[k].kind = "flush"
  /\ suspended[k].pc = "check"
  /\ agentMonitor' = checkForAgentActivity(agentMonitor, readCursorDb(cursorDb, failed), now)
  /\ suspended' = [suspended EXCEPT ![k].pc = "resume"]
  /\ lastChange' = NoChange
  /\ lastRecord' = NoRecord
  /\ lastCalls' = [NoCalls EXCEPT !.failedReads = failed]
  /\ UNCHANGED isInitialized
  /\ UNCHANGED <<now, pendingInputs, humanInputBuffer, pendingTab, keystrokes,
                 diffVars, cursorDb, fileStates, timers, activeFile>>
  /\ UNCHANGED sessionVars

FailedSources == (SUBSET Sources) \ {{}}

NextReads ==
  \/ \E f \in Documents, text \in DocTexts : TimersOpen(f, text)
  \/ \E f \in Documents, addedText \in ChangeTexts, text \in DocTexts :
       TimersChange(f, addedText, text)
  \/ \E f \in Documents : TimersClose(f)
  \/ \E tm \in timers : TimersFire(tm)
  \/ \E k \in 1..Len(suspended) : ForceCheck(k)
  \/ \E k \in 1..Len(suspended), failed \in FailedSources : ForceCheckFailing(k, failed)
  \/ \E k \in 1..Len(suspended), text \in DocTexts : TimersResume(k, text)
  \/ Poll
  \/ \E failed \in FailedSources : PollFailing(failed)
  \/ AgentBubble(MaxAgentEvents)
  \/ \E type \in {"cmdk", "composer"} : AgentGeneration(MaxAgentEvents, type, 0)
  \/ AgentInlineDiff(MaxAgentEvents)
  \/ Tick

SpecReads == Init /\ [][NextReads]_vars

----------------------------------------------------------------------------
(* Specification of the monitor's start: Cursor's databases already hold   *)
(* AI bubbles or inline diffs when the AgentActivityMonitor is constructed *)
(* and runs its first check; the agent goes on writing afterwards.         *)

\* bubbles, and inline diffs, the databases hold before the monitor starts
MaxExisting == 1

\* agent events of a run, those before the start included
MaxStartEvents == 3

ExistingDbs ==
  {[NoDb EXCEPT !.bubbleTimestamp = b, !.inlineDiffCount = d] :
     b \in 0..MaxExisting, d \in 0..MaxExisting} \ {NoDb}

InitStart ==
  /\ now = StartTime
  /\ InitTracker
  /\ InitNoDiff
  /\ agentMonitor = NoMonitor
  /\ cursorDb \in ExistingDbs
  /\ InitCollector

NextStart ==
  \/ Poll
  \/ AgentBubble(MaxStartEvents)
  \/ AgentInlineDiff(MaxStartEvents)
  \/ ConsumeAgentActivity
  \/ MonitorTick

SpecStart == InitStart /\ [][NextStart]_vars

----------------------------------------------------------------------------
(* SessionManager and the sessions table.  The open database is a copy in  *)
(* memory; saveToDisk writes it to the database file every ten seconds     *)
(* when it is dirty and on close, and initialize reads the file.  A        *)
(* session is {startedAt, ended, latestEvent}: started_at, ended_at IS NOT *)
(* NULL, and the timestamp of its latest event, 0 when it has none.        *)

\* sessionTimeoutMinutes (120) in ms
IDLE_TIMEOUT_MS == 7200000

\* sessions created in one run
MaxSessions == 3

\* the session clock stops after this many steps of half the idle timeout
MaxSessionTicks == 3
SessionStep == IDLE_TIMEOUT_MS \div 2

openSessions(ss) == {i \in 1..Len(ss) : ~ss[i].ended}

\* getOpenSessionForProject: ... WHERE ended_at IS NULL ORDER BY started_at
\* DESC LIMIT 1; the rows it may return, NoSession when there is none
getOpenSessionForProject(ss) ==
  IF openSessions(ss) = {} THEN {NoSession}
  ELSE {i \in openSessions(ss) :
          \A j \in openSessions(ss) : ss[j].startedAt <= ss[i].startedAt}

\* sessionRepository.endSession
endSession(ss, id) == [ss EXCEPT ![id].ended = TRUE]

\* sessionRepository.create
createSession(ss, t) ==
  Append(ss, [startedAt |-> t, ended |-> FALSE, latestEvent |-> 0])

\* startOrResumeSession on the manager m = {sessions, currentSession,
\* lastActivityTime}, openSession being the row getOpenSessionForProject
\* returned
startOrResumeSession(m, openSession, t) ==
  LET latestEvent == IF openSession = NoSession THEN 0
                     ELSE m.sessions[openSession].latestEvent
  IN  IF openSession # NoSession /\ latestEvent # 0
         /\ t - latestEvent < IDLE_TIMEOUT_MS
      THEN [m EXCEPT !.currentSession = openSession,
                     !.lastActivityTime = latestEvent]
      ELSE LET ss == IF openSession # NoSession /\ latestEvent # 0
                     THEN endSession(m.sessions, openSession)
                     ELSE m.sessions
           IN  [m EXCEPT !.sessions = createSession(ss, t),
                         !.currentSession = Len(ss) + 1,
                         !.lastActivityTime = t]

\* endCurrentSession
endCurrentSession(m) ==
  IF m.currentSession = NoSession THEN m
  ELSE [m EXCEPT !.sessions = endSession(@, m.currentSession),
                 !.currentSession = NoSession]

\* eventRepository.create in the current session
createEvent(m, t) ==
  [m EXCEPT !.sessions[m.currentSession].latestEvent = t]

sessionManager ==
  [sessions |-> sessions, currentSession |-> currentSession,
   lastActivityTime |-> lastActivityTime]

setSessionManager(m) ==
  /\ Len(m.sessions) <= MaxSessions
  /\ sessions' = m.sessions
  /\ currentSession' = m.currentSession
  /\ lastActivityTime' = m.lastActivityTime

\* everything but the session manager, its database and the clock
noSessionVars ==
  <<trackerVars, diffVars, monitorVars, fileStates, timers, activeFile,
    suspended, lastRecord, lastCalls>>

\* initialize(): the database file is read, then startOrResumeSession
SessionInitialize ==
  /\ ~isInitialized
  /\ \E openSession \in getOpenSessionForProject(savedSessions) :
       setSessionManager(startOrResumeSession(
         [sessions |-> savedSessions, currentSession |-> NoSession,
          lastActivityTime |-> now], openSession, now))
  /\ isInitialized' = TRUE
  /\ UNCHANGED <<now, savedSessions, noSessionVars>>

\* recordEvent(): after more than the idle timeout without an event the
\* current session is ended and startOrResumeSession runs
SessionRecordEvent ==
  /\ isInitialized
  /\ currentSession # NoSession
  /\ IF now - lastActivityTime > IDLE_TIMEOUT_MS
     THEN LET ended == endCurrentSession(sessionManager)
          IN  \E openSession \in getOpenSessionForProject(ended.sessions) :
                LET m == startOrResumeSession(ended, openSession, now)
                IN  setSessionManager(
                      createEvent([m EXCEPT !.lastActivityTime = now], now))
     ELSE setSessionManager(
            createEvent([sessionManager EXCEPT !.lastActivityTime = now], now))
  /\ UNCHANGED <<now, isInitialized, savedSessions, noSessionVars>>

\* the periodic saveToDisk of a dirty database
SessionSave ==
  /\ isInitialized
  /\ sessions # savedSessions
  /\ savedSessions' = sessions
  /\ UNCHANGED <<now, isInitialized, currentSession, lastActivityTime, sessions,
                 noSessionVars>>

\* shutdown(): endCurrentSession, then dbConnection.close() saves
SessionShutdown ==
  /\ isInitialized
  /\ setSessionManager(endCurrentSession(sessionManager))
  /\ savedSessions' = endCurrentSession(sessionManager).sessions
  /\ isInitialized' = FALSE
  /\ UNCHANGED <<now, noSessionVars>>

\* the extension host ends without deactivate() being called: the manager
\* and the open database are lost, the database file stays
SessionKill ==
  /\ isInitialized
  /\ isInitialized' = FALSE
  /\ currentSession' = NoSession
  /\ sessions' = savedSessions
  /\ UNCHANGED <<now, lastActivityTime, savedSessions, noSessionVars>>

SessionTick ==
  /\ now + SessionStep <= StartTime + MaxSessionTicks * SessionStep
  /\ now' = now + SessionStep
  /\ UNCHANGED <<isInitialized, sessionVars, noSessionVars>>

InitSessionManager ==
  /\ now = StartTime
  /\ InitTracker
  /\ InitNoDiff
  /\ InitMonitor
  /\ fileStates = [f \in Files |-> NoFileState]
  /\ timers = {}
  /\ activeFile = NULL
  /\ suspended = <<>>
  /\ lastRecord = NoRecord
  /\ lastCalls = NoCalls
  /\ isInitialized = FALSE
  /\ InitSessions

NextSessions ==
  \/ SessionInitialize
  \/ SessionRecordEvent
  \/ SessionSave
  \/ SessionShutdown
  \/ SessionKill
  \/ SessionTick

SpecSessions == InitSessionManager /\ [][NextSessions]_vars

(*CLAIMS*)
----------------------------------------------------------------------------
(* Properties of the typed-input tracker (checked under SpecTracker)       *)

\* classifyChange has just returned
Classified == lastChange.filePath # NULL

\* s is a prefix of t
IsPrefix(s, t) == Len(s) <= Len(t) /\ \A i \in 1..Len(s) : s[i] = t[i]

\* C4 as claimed: keystrokes recorded for a file, then a change of that file
\* adding exactly the typed text, is classified human with
\* humanChars = len(addedText) and externalChars = 0
C4_TypedThenSameChange ==
  (/\ Classified
   /\ Len(lastChange.addedText) > 0
   /\ lastChange.pendingHumanText = lastChange.addedText)
  => lastChange.classification =
       [type |-> "human", humanChars |-> Len(lastChange.addedText), externalChars |-> 0]

\* C4 amended: the same, when no Tab mark of the file is live at the change
C4_TypedThenSameChangeNoTab ==
  (/\ Classified
   /\ Len(lastChange.addedText) > 0
   /\ lastChange.pendingHumanText = lastChange.addedText
   /\ ~lastChange.tabLive)
  => lastChange.classification =
       [type |-> "human", humanChars |-> Len(lastChange.addedText), externalChars |-> 0]

\* "f" and "oo" were typed and a change added "foo": human, 3 characters
C4_Witness ==
  /\ Classified
  /\ keystrokes = 2
  /\ lastChange.pendingHumanText = str_foo
  /\ lastChange.addedText = str_foo
  /\ ~lastChange.tabLive
  /\ lastChange.classification.type = "human"
  /\ lastChange.classification.humanChars = 3

\* C5 as claimed: with "foo" pending, a change adding "foo bar baz" is
\* external with humanChars = 0 and externalChars = 11
C5_FooBarBazExternal ==
  (/\ Classified
   /\ lastChange.pendingHumanText = str_foo
   /\ lastChange.addedText = str_foo_bar_baz)
  => lastChange.classification =
       [type |-> "external", humanChars |-> 0, externalChars |-> 11]

\* C5 amended: with "foo" pending and no live Tab mark of the file, a change
\* adding "foo bar baz" is human with humanChars = 11 and externalChars = 0
\* (the buffer is a prefix of the added text), and the buffer is emptied
C5_FooBarBazHuman ==
  (/\ Classified
   /\ lastChange.pendingHumanText = str_foo
   /\ lastChange.addedText = str_foo_bar_baz
   /\ ~lastChange.tabLive)
  => /\ lastChange.classification =
          [type |-> "human", humanChars |-> 11, externalChars |-> 0]
     /\ humanInputBuffer[lastChange.filePath] = <<>>

\* "foo" was pending, no Tab mark was live, and "foo bar baz" was added
C5_Witness ==
  /\ Classified
  /\ lastChange.pendingHumanText = str_foo
  /\ lastChange.addedText = str_foo_bar_baz
  /\ ~lastChange.tabLive
  /\ lastChange.classification.humanChars = 11

\* C6: with no live Tab mark and a non-empty pending buffer, a non-empty
\* added text that is a prefix of the buffer, or that the buffer is a prefix
\* of, is human with humanChars = len(addedText); the buffer keeps what was
\* typed beyond the added text, and nothing else
C6_PrefixMatchIsHuman ==
  (/\ Classified
   /\ ~lastChange.tabLive
   /\ Len(lastChange.pendingHumanText) > 0
   /\ Len(lastChange.addedText) > 0
   /\ \/ IsPrefix(lastChange.addedText, lastChange.pendingHumanText)
      \/ IsPrefix(lastChange.pendingHumanText, lastChange.addedText))
  => /\ lastChange.classification =
          [type |-> "human", humanChars |-> Len(lastChange.addedText), externalChars |-> 0]
     /\ IF IsPrefix(lastChange.addedText, lastChange.pendingHumanText)
        THEN lastChange.addedText \o humanInputBuffer[lastChange.filePath]
               = lastChange.pendingHumanText
        ELSE humanInputBuffer[lastChange.filePath] = <<>>

\* "foo" was pending and a change delivered "f": human, "oo" stays pending
C6_Witness ==
  /\ Classified
  /\ ~lastChange.tabLive
  /\ lastChange.pendingHumanText = str_foo
  /\ lastChange.addedText = <<"f">>
  /\ lastChange.classification.type = "human"
  /\ humanInputBuffer[lastChange.filePath] = <<"o", "o">>

\* one tab character, or 1 to 8 spaces
Indentation == {<<TAB>>} \cup {[i \in 1..n |-> SP] : n \in 1..8}

\* C7: while a Tab mark of the file is live, a change adding one tab or 1 to
\* 8 spaces is human, and a change adding any other non-empty text is
\* external
C7_TabDisambiguation ==
  (Classified /\ lastChange.tabLive /\ Len(lastChange.addedText) > 0)
  => IF lastChange.addedText \in Indentation
     THEN lastChange.classification =
            [type |-> "human", humanChars |-> Len(lastChange.addedText), externalChars |-> 0]
     ELSE lastChange.classification =
            [type |-> "external", humanChars |-> 0, externalChars |-> Len(lastChange.addedText)]

\* a Tab mark was live and a change added "function foo() {": external
C7_Witness ==
  /\ Classified
  /\ lastChange.tabLive
  /\ lastChange.addedText = str_function_foo
  /\ lastChange.classification.type = "external"
  /\ lastChange.classification.externalChars = 16

\* a Tab mark was live and a change added 8 spaces: human
C7_WitnessIndent ==
  /\ Classified
  /\ lastChange.tabLive
  /\ lastChange.addedText = [i \in 1..8 |-> SP]
  /\ lastChange.classification.type = "human"

----------------------------------------------------------------------------
(* Properties of the diff engine (checked under SpecDiff)                  *)

\* the lines of a hunk that carry the prefix character c, prefix stripped
RECURSIVE stripped(_, _)
stripped(lines, c) ==
  IF Len(lines) = 0 THEN <<>>
  ELSE IF Head(lines)[1] = c
       THEN <<SubSeq(Head(lines), 3, Len(Head(lines)))>> \o stripped(Tail(lines), c)
       ELSE stripped(Tail(lines), c)

PatchFailed == << <<"patch failed">> >>

\* patch: apply hunks (1-based oldStart) in order to the lines a, of which
\* the first pos are already copied or deleted; acc is the output so far
RECURSIVE applyHunks(_, _, _, _)
applyHunks(a, hunks, pos, acc) ==
  IF Len(hunks) = 0 THEN acc \o SubSeq(a, pos + 1, Len(a))
  ELSE LET h       == Head(hunks)
           start   == h.oldStart - 1
           removed == stripped(h.lines, "-")
           added   == stripped(h.lines, "+")
       IN  IF \/ start < pos
              \/ start + Len(removed) > Len(a)
              \/ SubSeq(a, start + 1, start + Len(removed)) # removed
           THEN PatchFailed
           ELSE applyHunks(a, Tail(hunks), start + Len(removed),
                           acc \o SubSeq(a, pos + 1, start) \o added)

\* C8: round trip: applying the hunks of diff(a, b) to a, in order, each
\* deleting its removed lines at its old position and inserting its added
\* lines, gives b
C8_RoundTrip ==
  diffDone => join(applyHunks(split(oldText), diff.text, 0, <<>>)) = newText

\* a diff of two hunks, with lines removed and lines added, has been applied
C8_Witness ==
  /\ diffDone
  /\ Len(diff.text) >= 2
  /\ diff.added > 0
  /\ diff.removed > 0
  /\ join(applyHunks(split(oldText), diff.text, 0, <<>>)) = newText

\* C9: diff(x, x) has no hunk, no added line and no removed line
C9_DiffSelfEmpty ==
  (diffDone /\ oldText = newText) =>
    (diff.text = <<>> /\ diff.added = 0 /\ diff.removed = 0)

\* diff(x, x) was computed for a text of three lines, two of them equal
C9_Witness ==
  /\ diffDone
  /\ oldText = newText
  /\ oldText = <<"a", NL, NL, "a">>
  /\ diff.text = <<>>

\* diff(x, x) was computed for the empty text
C9_WitnessEmpty ==
  diffDone /\ oldText = <<>> /\ newText = <<>> /\ diff.text = <<>>

\* s is a subsequence of t
RECURSIVE IsSubseq(_, _)
IsSubseq(s, t) ==
  IF Len(s) = 0 THEN TRUE
  ELSE IF Len(t) = 0 THEN FALSE
  ELSE IF Head(s) = Head(t) THEN IsSubseq(Tail(s), Tail(t))
  ELSE IsSubseq(s, Tail(t))

\* the elements of a at the indices in S, in order
RECURSIVE pick(_, _, _)
pick(a, S, i) ==
  IF i > Len(a) THEN <<>>
  ELSE IF i \in S THEN <<a[i]>> \o pick(a, S, i + 1)
  ELSE pick(a, S, i + 1)

\* the length of a longest common subsequence, by enumeration
LcsLength(a, b) ==
  LET sizes == {Cardinality(S) : S \in {T \in SUBSET (1..Len(a)) : IsSubseq(pick(a, T, 1), b)}}
  IN  CHOOSE n \in sizes : \A m \in sizes : m <= n

\* C10: the diff is minimal: the lines it leaves unchanged are as many as
\* a longest common subsequence of the two line sequences, so
\* removed + added = len(old) + len(new) - 2 * LCS(old, new)
C10_Minimal ==
  diffDone =>
    LET oldLines == split(oldText)
        newLines == split(newText)
        lcsLen   == LcsLength(oldLines, newLines)
    IN  /\ Len(oldLines) - diff.removed = lcsLen
        /\ Len(newLines) - diff.added = lcsLen
        /\ diff.removed + diff.added = Len(oldLines) + Len(newLines) - 2 * lcsLen

\* a diff where the backtrack had to choose between two neighbours of
\* unequal value: old = [a, b], new = [a, b, ""] keeps [a, b]
C10_Witness ==
  /\ diffDone
  /\ oldText = <<"a", NL, "b">>
  /\ newText = <<"a", NL, "b", NL>>
  /\ diff.added = 1
  /\ diff.removed = 0

\* C11: for baseline lines [a, b, c] and current lines [a, x, c] the diff
\* is exactly one hunk with 1-based oldStart = 2, oldCount = 1, newStart = 2,
\* newCount = 1 and lines ["- b", "+ x"], with 1 added and 1 removed line
C11_ReplaceMiddleLine ==
  (diffDone /\ oldText = str_a_b_c /\ newText = str_a_x_c) =>
    diff = [text    |-> <<[oldStart |-> 2, oldCount |-> 1,
                           newStart |-> 2, newCount |-> 1,
                           lines    |-> <<<<"-", SP, "b">>, <<"+", SP, "x">>>>]>>,
            added   |-> 1,
            removed |-> 1]

\* diff([a, b, c], [a, x, c]) has been computed
C11_Witness ==
  diffDone /\ oldText = str_a_b_c /\ newText = str_a_x_c /\ Len(diff.text) = 1

\* the lines of a hunk are r removed lines followed by added lines only
RemovedFirst(h, r) ==
  /\ \A k \in 1..r : startsWith(h.lines[k], <<"-", SP>>)
  /\ \A k \in (r + 1)..Len(h.lines) : startsWith(h.lines[k], <<"+", SP>>)

\* the hunk h sits at its header's 1-based positions in a and b: its removed
\* lines are the oldCount lines of a from oldStart on, its added lines the
\* newCount lines of b from newStart on
HunkInPlace(h, a, b) ==
  /\ Len(h.lines) = h.oldCount + h.newCount
  /\ Len(h.lines) > 0
  /\ RemovedFirst(h, h.oldCount)
  /\ h.oldStart >= 1
  /\ h.newStart >= 1
  /\ h.oldStart + h.oldCount - 1 <= Len(a)
  /\ h.newStart + h.newCount - 1 <= Len(b)
  /\ \A k \in 1..h.oldCount : h.lines[k] = <<"-", SP>> \o a[h.oldStart + k - 1]
  /\ \A k \in 1..h.newCount :
       h.lines[h.oldCount + k] = <<"+", SP>> \o b[h.newStart + k - 1]

\* C12: in every hunk the removed lines come before the added lines,
\* oldCount and newCount are their numbers, the header starts are the hunk's
\* 1-based positions in the old and the new text, and successive hunks are
\* in increasing position order with at least one unchanged line between
C12_HunkShape ==
  diffDone =>
    LET a == split(oldText)
        b == split(newText)
        hunks == diff.text
    IN  /\ \A k \in 1..Len(hunks) : HunkInPlace(hunks[k], a, b)
        /\ \A k \in 1..(Len(hunks) - 1) :
             /\ hunks[k + 1].oldStart > hunks[k].oldStart + hunks[k].oldCount
             /\ hunks[k + 1].newStart > hunks[k].newStart + hunks[k].newCount
             /\ hunks[k + 1].oldStart - (hunks[k].oldStart + hunks[k].oldCount)
                  = hunks[k + 1].newStart - (hunks[k].newStart + hunks[k].newCount)

\* a diff of two hunks, the first with removed and added lines
C12_Witness ==
  /\ diffDone
  /\ Len(diff.text) >= 2
  /\ diff.text[1].oldCount > 0
  /\ diff.text[1].newCount > 0
  /\ HunkInPlace(diff.text[1], split(oldText), split(newText))

----------------------------------------------------------------------------
(* Claims about attribution (Spec) and about the monitor (SpecMonitor) *)

\* C1: a single agent activation is billed at most once.  Once
\* consumeAgentActivity has been called (which the handlers do right after
\* emitting a record with source 'agent'), no record emitted before the next
\* markAgentActive has source 'agent', whatever its type and file.
C1_BilledAtMostOnce ==
  lastRecord.source = "agent" => ~lastRecord.consumed

\* C3: at flush, a batch whose humanTypedChars counter is greater than 0 is
\* recorded with source human, whatever agent activity was captured during
\* the batch and whatever the monitor reports at flush time.
C3_TypedBatchIsHuman ==
  (lastRecord.type = "diff" /\ lastRecord.humanTypedChars > 0)
    => lastRecord.source = "human"

\* the workspace paths isAgentActive is asked about: none, the workspace
\* folder, a folder outside it
WorkspacePaths == {NoPath, WorkspaceFolder, <<"/", "x">>}

\* C2: once consumeAgentActivity() has been called, isAgentActive() returns
\* false on every call, for every workspace path and also within the recency
\* window, until the next markAgentActive(); only markAgentActive() ends the
\* consumed state, and right after it isAgentActive() is true again.
C2_ConsumedUntilMarked ==
  /\ [](agentMonitor.agentActivityConsumed
          => \A ws \in WorkspacePaths : ~isAgentActive(agentMonitor, ws, now))
  /\ [][(agentMonitor.agentActivityConsumed /\ ~agentMonitor'.agentActivityConsumed)
          => agentMonitor'.activations > agentMonitor.activations]_vars
  /\ [][agentMonitor'.activations > agentMonitor.activations
          => isAgentActive(agentMonitor', NoPath, now')]_vars

\* the activity was consumed and time has passed since it was detected,
\* less than the recency window
C2_Witness ==
  /\ agentMonitor.agentActivityConsumed
  /\ agentMonitor.activations > 0
  /\ now > agentMonitor.newActivityDetectedAt
  /\ now - agentMonitor.newActivityDetectedAt < RECENT_AGENT_ACTIVITY_MS

\* C13: a flush of a file whose current text equals its baseline emits no
\* record
C13_UnchangedFlushIsSilent ==
  (lastCalls.flushDiff # NULL /\ lastCalls.unchanged)
    => lastRecord = NoRecord /\ lastCalls.consumeAgentActivity = 0

\* flushDiff has just run on a FileState whose texts are equal
C13_Witness ==
  /\ lastCalls.flushDiff = "f1"
  /\ lastCalls.unchanged
  /\ fileStates["f1"].tracked
  /\ lastRecord = NoRecord

\* C14: a handler that emits a record with source agent calls
\* consumeAgentActivity exactly once, after which the monitor is in the
\* consumed state; a handler that emits a human record or none does not
\* call it
C14_ConsumeOncePerAgentRecord ==
  /\ lastRecord.source = "agent"
       => lastCalls.consumeAgentActivity = 1 /\ agentMonitor.agentActivityConsumed
  /\ lastRecord.source # "agent" => lastCalls.consumeAgentActivity = 0

\* an agent diff has just been recorded and consumed; a human diff has just
\* been recorded
C14_Witness ==
  /\ lastRecord.source = "agent"
  /\ lastRecord.type = "diff"
  /\ lastCalls.consumeAgentActivity = 1

C14_WitnessHuman ==
  /\ lastRecord.source = "human"
  /\ lastRecord.type = "diff"
  /\ lastCalls.consumeAgentActivity = 0

\* onDocumentChange has just classified a change of f as external while the
\* oracle was active
Captured(f) ==
  /\ lastChange'.filePath = f
  /\ lastChange'.classification.type = "external"
  /\ isAgentActive(agentMonitor, getWorkspacePathForFile(f), now)

\* flushDiff has just run on the FileState of f, which differed from its
\* baseline and had captured agent activity
FlushedCaptured(f) ==
  /\ lastCalls'.flushDiff = f
  /\ ~lastCalls'.unchanged
  /\ fileStates[f].hadAgentActivity

\* C15: a flush that finds captured agent activity records the subtype and
\* the interaction the monitor held when the last external change was
\* classified while it was active: the classification stores them in the
\* FileState, nothing but such a classification changes them while the
\* batch is pending (no markAgentActive, expiry or consume), and the flush
\* records what is stored
C15_RecordsCapturedInteraction ==
  /\ [][\A f \in Files : Captured(f) =>
          /\ fileStates'[f].hadAgentActivity
          /\ fileStates'[f].agentSubtype = agentMonitor.lastAgentSubtype
          /\ fileStates'[f].agentInteraction = agentMonitor.lastAgentInteraction]_vars
  /\ [][\A f \in Files :
          (fileStates[f].hadAgentActivity /\ fileStates'[f].hadAgentActivity
             /\ ~Captured(f))
          => /\ fileStates'[f].agentSubtype = fileStates[f].agentSubtype
             /\ fileStates'[f].agentInteraction = fileStates[f].agentInteraction]_vars
  /\ [][\A f \in Files : FlushedCaptured(f) =>
          /\ lastRecord'.type = "diff"
          /\ lastRecord'.filePath = f
          /\ lastRecord'.source = "agent"
          /\ lastRecord'.agentSubtype = fileStates[f].agentSubtype
          /\ lastRecord'.bubbleId = fileStates[f].agentInteraction]_vars

\* an agent diff recorded from captured activity whose subtype and
\* interaction are no longer those of the monitor
C15_Witness ==
  /\ lastCalls.flushDiff # NULL
  /\ lastRecord.type = "diff"
  /\ lastRecord.source = "agent"
  /\ lastRecord.hadAgentActivity
  /\ lastRecord.agentSubtype # agentMonitor.lastAgentSubtype
  /\ lastRecord.bubbleId # agentMonitor.lastAgentInteraction

\* the same when the window has expired, and when the activity was consumed
C15_WitnessExpired ==
  /\ lastCalls.flushDiff # NULL
  /\ lastRecord.source = "agent"
  /\ lastRecord.hadAgentActivity
  /\ now - agentMonitor.newActivityDetectedAt >= RECENT_AGENT_ACTIVITY_MS

C15_WitnessConsumed ==
  /\ lastCalls.flushDiff # NULL
  /\ lastRecord.source = "agent"
  /\ lastRecord.hadAgentActivity
  /\ lastRecord.consumed

\* flushDiff has just run on the FileState of f, which differed from its
\* baseline, had no captured agent activity, external characters and no
\* typed characters
RecheckStarts(f) ==
  /\ lastCalls'.flushDiff = f
  /\ ~lastCalls'.unchanged
  /\ ~fileStates[f].hadAgentActivity
  /\ fileStates[f].externalChars > 0
  /\ fileStates[f].humanTypedChars = 0

\* the flushDiff calls of s that wait for their recheck or its return
waiting(s) == {k \in 1..Len(s) : s[k].kind = "flush"}

\* C16: a flush of a batch with no captured agent activity, external
\* characters and no typed characters records nothing yet and waits for
\* one forced check of the monitor, and only such a flush does; the check
\* runs once per flush; when it has returned the flush records its diff
\* with source agent if the monitor is active then, human otherwise
C16_RecheckDecidesSource ==
  /\ [][\A f \in Files : RecheckStarts(f) =>
          /\ lastRecord' = NoRecord
          /\ Len(suspended') = Len(suspended) + 1
          /\ suspended'[Len(suspended')].kind = "flush"
          /\ suspended'[Len(suspended')].pc = "check"
          /\ suspended'[Len(suspended')].filePath = f]_vars
  /\ [][Cardinality(waiting(suspended')) > Cardinality(waiting(suspended))
          => \E f \in Files : RecheckStarts(f)]_vars
  /\ [][Len(suspended') = Len(suspended) =>
          \A k \in waiting(suspended) :
            /\ suspended[k].pc = "resume" => suspended'[k].pc = "resume"
            /\ (suspended[k].pc = "check" /\ suspended'[k].pc = "resume")
                 => agentMonitor' = checkForAgentActivity(agentMonitor, cursorDb, now)]_vars
  /\ [][Cardinality(waiting(suspended')) < Cardinality(waiting(suspended)) =>
          \E k \in waiting(suspended) :
            /\ suspended[k].pc = "resume"
            /\ lastRecord'.type = "diff"
            /\ lastRecord'.filePath = suspended[k].filePath
            /\ lastRecord'.source =
                 IF isAgentActive(agentMonitor,
                                  getWorkspacePathForFile(suspended[k].filePath), now)
                 THEN "agent" ELSE "human"]_vars

\* after the recheck the monitor was active: the diff of a batch without
\* captured activity is recorded with source agent
C16_Witness ==
  /\ lastCalls.flushDiff = NULL
  /\ lastRecord.type = "diff"
  /\ lastRecord.source = "agent"
  /\ ~lastRecord.hadAgentActivity
  /\ lastRecord.externalChars > 0
  /\ lastRecord.humanTypedChars = 0

\* after the recheck the monitor was not active: source human
C16_WitnessHuman ==
  /\ lastCalls.flushDiff = NULL
  /\ lastRecord.type = "diff"
  /\ lastRecord.source = "human"
  /\ ~lastRecord.hadAgentActivity
  /\ lastRecord.externalChars > 0
  /\ lastRecord.humanTypedChars = 0

\* C17: every diff record a flush hands to the recording sink is stored:
\* the flushes of dispose deliver their records while the session manager
\* still stores them, so that deactivation drops no pending edit
C17_FlushedDiffsAreStored ==
  lastRecord.type = "diff" => lastRecord.stored

\* C18: for each file at most one debounce timer is pending
C18_OneTimerPerFile ==
  \A f \in Files : Cardinality({tm \in timers : tm.filePath = f}) <= 1

\* C19: a flush that waits for its recheck completes and its record is
\* emitted, whether or not the recheck returns
C19_FlushCompletes ==
  (\E k \in waiting(suspended) : suspended[k].pc = "check")
    ~> (lastRecord.type = "diff")

\* every keystroke the tracker holds was typed at least one expiry window
\* ago
AllTypedExpired ==
  /\ pendingInputs # <<>>
  /\ \A i \in 1..Len(pendingInputs) :
       pendingInputs[i].timestamp + INPUT_EXPIRY_MS <= now

\* C20: typed text not matched within the expiry window no longer makes a
\* change human: a change that arrives when all typed text has expired and
\* adds exactly the text typed in its file is classified external
C20_StaleTypedTextIsExternal ==
  [][(/\ AllTypedExpired
      /\ lastChange'.filePath # NULL
      /\ ~lastChange'.tabLive
      /\ Len(lastChange'.addedText) > 0
      /\ lastChange'.addedText = humanInputBuffer[lastChange'.filePath])
     => lastChange'.classification.type = "external"]_vars

\* C21: a Tab signalled in one file does not remove or replace the live Tab
\* mark of another file: after a Tab in file b, a mark of file a that was
\* live is still live, and still disambiguates a's next change
C21_TabMarksArePerFile ==
  [][\A a \in Files : \A b \in Files \ {a} :
       (/\ tabIsLive(tracker, a, now)
        /\ TabPressed(b) \/ Type(b, <<TAB>>))
       => tabIsLive([pendingTab |-> pendingTab'], a, now')]_vars

\* no Tab mark applies to a change of file f now: none is held, or the one
\* held belongs to another file or is as old as the expiry window
NoTabMarkFor(f) ==
  \/ pendingTab = NoTab
  \/ pendingTab.filePath # f
  \/ now - pendingTab.timestamp >= INPUT_EXPIRY_MS

\* the classification of an added text by the typed-buffer prefix rule
PrefixRule(addedText, pendingHumanText) ==
  IF /\ Len(pendingHumanText) > 0
     /\ Len(addedText) > 0
     /\ textMatchesPending(addedText, pendingHumanText)
  THEN human(Len(addedText))
  ELSE external(Len(addedText))

\* C22: a Tab mark that is absent, belongs to another file or is older than
\* the expiry window is not applied: the change is classified by the
\* prefix rule on the file's typed buffer, or as external, and the typed
\* text is left as it would be had no Tab been pressed
C22_DeadTabMarkIsIgnored ==
  [][\A f \in Files :
       (lastChange'.filePath = f /\ NoTabMarkFor(f))
       => /\ lastChange'.classification
               = PrefixRule(lastChange'.addedText, humanInputBuffer[f])
          /\ humanInputBuffer'
               = classifyChange([tracker EXCEPT !.pendingTab = NoTab], f,
                                lastChange'.addedText, now).tr.humanInputBuffer]_vars

\* an indentation change of a file while the Tab mark of the other file is
\* held: the mark is not applied and stays
C22_Witness ==
  /\ Classified
  /\ isJustIndentation(lastChange.addedText)
  /\ ~lastChange.tabLive
  /\ pendingTab # NoTab
  /\ pendingTab.filePath # lastChange.filePath

\* the Tab mark held now is the one of file f and is younger than the
\* expiry window
LiveTabMarkFor(f) ==
  /\ pendingTab # NoTab
  /\ pendingTab.filePath = f
  /\ now - pendingTab.timestamp < INPUT_EXPIRY_MS

\* C23: when a live Tab mark decides a change (the change adds text while
\* the mark of its file is live), the mark is consumed, the typed buffer
\* and the queue entries of the file are cleared, and the whole length of
\* the added text is human for an indentation, external for a completion
C23_LiveTabMarkDecides ==
  [][\A f \in Files :
       (/\ lastChange'.filePath = f
        /\ LiveTabMarkFor(f)
        /\ Len(lastChange'.addedText) > 0)
       => /\ pendingTab' = NoTab
          /\ humanInputBuffer'[f] = <<>>
          /\ \A i \in 1..Len(pendingInputs') : pendingInputs'[i].filePath # f
          /\ lastChange'.classification
               = IF isJustIndentation(lastChange'.addedText)
                 THEN human(Len(lastChange'.addedText))
                 ELSE external(Len(lastChange'.addedText))]_vars

\* a completion decided by a live Tab mark while typed text of the file was
\* pending: nothing of the file is left
C23_Witness ==
  /\ Classified
  /\ lastChange.tabLive
  /\ ~isJustIndentation(lastChange.addedText)
  /\ Len(lastChange.pendingHumanText) > 1
  /\ lastChange.classification = external(Len(lastChange.addedText))
  /\ humanInputBuffer[lastChange.filePath] = <<>>
  /\ pendingTab = NoTab

\* an indentation decided by a live Tab mark
C23_WitnessIndentation ==
  /\ Classified
  /\ lastChange.tabLive
  /\ lastChange.addedText = spaces(8)
  /\ lastChange.classification = human(8)
  /\ pendingTab = NoTab

\* C24: after a change is classified external without a Tab mark deciding
\* it (the added text does not match the typed buffer, or nothing typed is
\* pending), nothing of the file's ledger is left: its typed buffer is
\* empty, no queue entry and no Tab mark is held for it
C24_MismatchDiscardsLedger ==
  (/\ Classified
   /\ ~lastChange.tabLive
   /\ lastChange.classification.type = "external")
  => /\ humanInputBuffer[lastChange.filePath] = <<>>
     /\ \A i \in 1..Len(pendingInputs) :
          pendingInputs[i].filePath # lastChange.filePath
     /\ pendingTab.filePath # lastChange.filePath

\* an added text that does not match the pending typed text of its file
C24_Witness ==
  /\ Classified
  /\ ~lastChange.tabLive
  /\ lastChange.classification.type = "external"
  /\ Len(lastChange.addedText) > 0
  /\ Len(lastChange.pendingHumanText) > 0
  /\ ~textMatchesPending(lastChange.addedText, lastChange.pendingHumanText)

\* the entries of file g in a queue
entriesOf(queue, g) ==
  LET ofFile(p) == p.filePath = g
  IN  SelectSeq(queue, ofFile)

\* the entries of a queue younger than the expiry window at time t
unexpired(queue, t) ==
  LET fresh(p) == p.timestamp > t - INPUT_EXPIRY_MS
  IN  SelectSeq(queue, fresh)

\* C28: classifying a change of file f, whatever its outcome, leaves the
\* typed buffer, the unexpired queue entries and a live Tab mark of every
\* other file unchanged
C28_OtherFilesUntouched ==
  [][\A f \in Files : \A g \in Files \ {f} :
       lastChange'.filePath = f
       => /\ humanInputBuffer'[g] = humanInputBuffer[g]
          /\ entriesOf(pendingInputs', g) = entriesOf(unexpired(pendingInputs, now), g)
          /\ LiveTabMarkFor(g) => pendingTab' = pendingTab]_vars

\* a ledger mismatch in one file while the other file has typed text, a
\* queue entry and a Tab mark: the file's own buffer is discarded, the
\* other file's state is all there
C28_Witness ==
  /\ Classified
  /\ lastChange.classification.type = "external"
  /\ Len(lastChange.pendingHumanText) > 0
  /\ humanInputBuffer[lastChange.filePath] = <<>>
  /\ \E g \in Files \ {lastChange.filePath} :
       /\ humanInputBuffer[g] # <<>>
       /\ entriesOf(pendingInputs, g) # <<>>
       /\ pendingTab.filePath = g

\* a typed change of one file consumed while the other file has typed the
\* same text
C28_WitnessHuman ==
  /\ Classified
  /\ lastChange.classification.type = "human"
  /\ ~lastChange.tabLive
  /\ \E g \in Files \ {lastChange.filePath} :
       /\ humanInputBuffer[g] = lastChange.addedText
       /\ entriesOf(pendingInputs, g) # <<>>

\* workspace folders other than the one the activity is recorded for: a
\* sibling folder, and a sibling folder whose name begins with the name of
\* the recorded one ("/w2" beside "/w")
OtherWorkspaces == {<<"/", "x">>, <<"/", "w", "2">>}

\* C25: a change in a workspace is never attributed to agent activity
\* detected in a different workspace: when the last activation was recorded
\* for another workspace, isAgentActive, getSource and the payload getters
\* asked about the workspace report inactive, human and null
C25_OtherWorkspaceIsInactive ==
  \A ws \in OtherWorkspaces :
    (/\ agentMonitor.activations > 0
     /\ agentMonitor.lastWorkspaceFsPath # NoPath
     /\ agentMonitor.lastWorkspaceFsPath # ws)
    => /\ ~isAgentActive(agentMonitor, ws, now)
       /\ getSource(agentMonitor, ws, now) = "human"
       /\ getAgentSubtype(agentMonitor, ws, now) = NULL
       /\ getAgentInteraction(agentMonitor, ws, now) = NoInteraction

\* the activity is not consumed and less than the recency window has
\* elapsed since the last activation
UnconsumedAndRecent ==
  /\ ~agentMonitor.agentActivityConsumed
  /\ now - agentMonitor.newActivityDetectedAt < RECENT_AGENT_ACTIVITY_MS

\* the paths isAgentActive is asked about
QueryPaths == WorkspacePaths \cup OtherWorkspaces

\* the query is not scoped away from the recorded workspace: no path is
\* given, none was recorded, or the given one begins with the recorded one
InScope(ws) ==
  \/ ws = NoPath
  \/ agentMonitor.lastWorkspaceFsPath = NoPath
  \/ startsWith(ws, agentMonitor.lastWorkspaceFsPath)

\* C26, as stated: isAgentActive is true exactly when the activity is not
\* consumed and less than the recency window has elapsed since the last
\* activation, whatever workspace path it is asked about
C26_ActiveIffUnconsumedAndRecent ==
  \A ws \in QueryPaths : isAgentActive(agentMonitor, ws, now) <=> UnconsumedAndRecent

\* C26: isAgentActive is true exactly when the activity is not consumed,
\* less than the recency window has elapsed since the last activation and
\* the query is in the scope of the recorded workspace; once the window has
\* elapsed it is false, for every path and with no consume call, until the
\* next markAgentActive
C26_ActiveIffUnconsumedRecentInScope ==
  /\ [](\A ws \in QueryPaths :
          isAgentActive(agentMonitor, ws, now) <=> (UnconsumedAndRecent /\ InScope(ws)))
  /\ [][(/\ now - agentMonitor.newActivityDetectedAt >= RECENT_AGENT_ACTIVITY_MS
         /\ agentMonitor'.activations = agentMonitor.activations)
        => \A ws \in QueryPaths : ~isAgentActive(agentMonitor', ws, now')]_vars

\* the window has elapsed since an activation that was never consumed
C26_Witness ==
  /\ agentMonitor.activations > 0
  /\ ~agentMonitor.agentActivityConsumed
  /\ now - agentMonitor.newActivityDetectedAt = RECENT_AGENT_ACTIVITY_MS
  /\ \A ws \in QueryPaths : ~isAgentActive(agentMonitor, ws, now)

\* a bubble or a generation the monitor has not taken note of
UndetectedBubble ==
  /\ cursorDb.bubbleTimestamp # 0
  /\ cursorDb.bubbleTimestamp # agentMonitor.lastKnownBubbleTimestamp

UndetectedGeneration ==
  /\ cursorDb.generation # NoGeneration
  /\ cursorDb.generation.unixMs > agentMonitor.lastKnownGenerationTime

C27_WitnessPoll ==
  /\ lastCalls.failedReads = {"workspace"}
  /\ suspended = <<>>
  /\ UndetectedGeneration

\* the lines under the header of a record are the given lines, one for
\* one and in order, each after the given sign and a space
ListsEveryLine(rec, sign, lines) ==
  /\ Len(rec.fileLines) = Len(lines)
  /\ \A i \in 1..Len(lines) : rec.fileLines[i] = <<sign, SP>> \o lines[i]

\* C29: file create and file delete events are recorded without a diff
\* being computed: the record of a created file that has been read lists
\* every line of the file as an added line, with linesAdded the number of
\* lines and linesRemoved 0; the record of a deleted tracked file lists
\* every line of its baseline as a removed line, with linesRemoved the
\* number of lines and linesAdded 0
C29_CreateDeleteListEveryLine ==
  [][/\ \A k \in 1..Len(suspended), text \in DocTexts :
          FileCreateRead(k, text, TRUE)
          => /\ lastRecord'.type = "file_create"
             /\ lastRecord'.linesAdded = Len(split(text))
             /\ lastRecord'.linesRemoved = 0
             /\ ListsEveryLine(lastRecord', "+", split(text))
     /\ \A f \in Files :
          (fileStates[f].tracked /\ FileDelete(f))
          => /\ lastRecord'.type = "file_delete"
             /\ lastRecord'.linesRemoved = Len(split(fileStates[f].baseline))
             /\ lastRecord'.linesAdded = 0
             /\ ListsEveryLine(lastRecord', "-", split(fileStates[f].baseline))
             /\ ~fileStates'[f].tracked]_vars

\* a tracked file of two lines has been deleted
C29_Witness ==
  /\ lastRecord.type = "file_delete"
  /\ lastRecord.linesRemoved = 2
  /\ lastRecord.linesAdded = 0
  /\ lastRecord.fileLines = << <<"-", SP, "a">>, <<"-", SP, "b">> >>

\* a file of two lines has been created and read
C29_WitnessCreate ==
  /\ lastRecord.type = "file_create"
  /\ lastRecord.linesAdded = 2
  /\ lastRecord.linesRemoved = 0
  /\ lastRecord.fileLines = << <<"+", SP, "a">>, <<"+", SP, "b">> >>

\* file f has a pending batch whose text has changed
PendingChange(f) ==
  /\ fileStates[f].tracked
  /\ fileStates[f].baseline # fileStates[f].current

\* this step hands the diff of file f to the recording sink, or starts the
\* flush of f that will do so after its recheck
FlushesBatch(f) ==
  \/ lastRecord'.type = "diff" /\ lastRecord'.filePath = f
  \/ \E k \in 1..Len(suspended') :
       /\ suspended'[k].kind = "flush"
       /\ suspended'[k].filePath = f
       /\ suspended'[k].pc = "check"

\* the triggers that do not remove the file: the debounce timer of f fires,
\* the active editor switches away from f, the document of f is closed
EditorTrigger(f) ==
  \/ \E tm \in timers : tm.filePath = f /\ FlushTimer(tm)
  \/ activeFile = f /\ \E target \in Documents \cup {NULL}, text \in DocTexts :
                         FileSwitch(target, text)
  \/ DocumentClose(f)

\* C30: the pending batch of a file is flushed, its diff emitted if its
\* text has changed, on each of the triggers: debounce timeout, switch of
\* the active file away from it, document close, and file delete
C30_EveryTriggerFlushes ==
  [][\A f \in Files :
       (PendingChange(f) /\ (EditorTrigger(f) \/ FileDelete(f)))
       => FlushesBatch(f)]_vars

\* the same for the three triggers of the editor alone
C30_EditorTriggersFlush ==
  [][\A f \in Files : (PendingChange(f) /\ EditorTrigger(f)) => FlushesBatch(f)]_vars

\* C31: a batch made only of changes matched to keystrokes, flushed while
\* the agent is marked active and within the recency window, is recorded
\* with source human, no agent payload, and does not consume the activity:
\* the oracle reports active before and after the flush
C31_TypedBatchUnderActiveOracleIsHuman ==
  (/\ lastRecord.type = "diff"
   /\ lastRecord.humanTypedChars > 0
   /\ lastRecord.externalChars = 0)
  => /\ ~lastRecord.hadAgentActivity
     /\ lastRecord.source = "human"
     /\ lastRecord.agentSubtype = NULL
     /\ lastRecord.bubbleId = NoInteraction
     /\ lastCalls.consumeAgentActivity = 0
     /\ lastRecord.consumed = agentMonitor.agentActivityConsumed

\* a typed batch has just been recorded while the oracle reports active
C31_Witness ==
  /\ lastRecord.type = "diff"
  /\ lastRecord.humanTypedChars > 0
  /\ lastRecord.externalChars = 0
  /\ lastRecord.source = "human"
  /\ agentMonitor.activations > 0
  /\ isAgentActive(agentMonitor, getWorkspacePathForFile(lastRecord.filePath), now)

\* C32: no edit is lost across a flush: every diff record emitted for a
\* file covers exactly the text by which the flush advances the file's
\* baseline, also when a change of the file arrives while the flush waits
\* for its recheck, so that the diffs emitted for the file lead from its
\* first baseline to its latest text
C32_DiffCoversBaselineAdvance ==
  [][\A f \in Files :
       (/\ lastRecord'.type = "diff"
        /\ lastRecord'.filePath = f
        /\ fileStates[f].tracked
        /\ fileStates'[f].tracked)
       => /\ lastRecord'.linesAdded
               = computeDiff(fileStates[f].baseline, fileStates'[f].baseline).added
          /\ lastRecord'.linesRemoved
               = computeDiff(fileStates[f].baseline, fileStates'[f].baseline).removed]_vars

\* C33: no change is recorded twice: while a flushDiff of a file waits for
\* its recheck, holding the diff it has computed from the file's baseline,
\* no other flushDiff of the file emits a diff record computed from that
\* baseline; a diff record of the file is emitted only by the waiting
\* flush itself, which then waits no more
C33_NoRecordBesideWaitingFlush ==
  [][\A k \in waiting(suspended) :
       (/\ ~suspended[k].orphaned
        /\ lastRecord'.type = "diff"
        /\ lastRecord'.filePath = suspended[k].filePath)
       => \A j \in waiting(suspended') :
            suspended'[j].filePath # suspended[k].filePath]_vars


\* the monitor holds an activation newer than the one the batch of f
\* captured: markAgentActive has replaced the interaction the FileState
\* stored, and the new activation is unconsumed and inside its window
NewerActivation(f) ==
  /\ fileStates[f].hadAgentActivity
  /\ agentMonitor.lastAgentInteraction # fileStates[f].agentInteraction
  /\ isAgentActive(agentMonitor, getWorkspacePathForFile(f), now)

\* C34: consuming for a batch invalidates only the activation the batch
\* captured: when markAgentActive has occurred after the capture and before
\* the flush, the flush of the batch leaves the new activation unconsumed
\* and isAgentActive true for it
C34_FlushSparesNewerActivation ==
  [][\A f \in Files :
       (FlushedCaptured(f) /\ NewerActivation(f))
       => /\ ~agentMonitor'.agentActivityConsumed
          /\ isAgentActive(agentMonitor', getWorkspacePathForFile(f), now')]_vars


\* a flushDiff of f has run to its end in this step: it found the text
\* unchanged and returned, or it emitted its diff record
FlushCompletes(f) ==
  \/ lastCalls'.flushDiff = f /\ lastCalls'.unchanged
  \/ lastRecord'.type = "diff" /\ lastRecord'.filePath = f

\* C35: after flushDiff completes for a file, whether or not a record was
\* emitted, the batch of its FileState is reset: baseline equals current,
\* both character counters are 0, no agent activity, subtype or interaction
\* is stored, no debounce timer of the file is pending and the typed buffer
\* of the file is empty
C35_CompletedFlushResetsBatch ==
  [][\A f \in Files :
       (FlushCompletes(f) /\ fileStates'[f].tracked)
       => /\ fileStates'[f].baseline = fileStates'[f].current
          /\ fileStates'[f].humanTypedChars = 0
          /\ fileStates'[f].externalChars = 0
          /\ ~fileStates'[f].hadAgentActivity
          /\ fileStates'[f].agentSubtype = NULL
          /\ fileStates'[f].agentInteraction = NoInteraction
          /\ fileStates'[f].timeout = 0
          /\ \A tm \in timers' : tm.filePath # f
          /\ humanInputBuffer'[f] = <<>>]_vars


\* the databases show the monitor nothing new: the latest bubble timestamp
\* is the one it knows, the latest generation is not newer than the one it
\* knows and the inline-diff count is not higher than the one it knows
UnchangedFingerprints(mon) ==
  /\ cursorDb.bubbleTimestamp = mon.lastKnownBubbleTimestamp
  /\ cursorDb.generation.unixMs <= mon.lastKnownGenerationTime
  /\ cursorDb.inlineDiffCount <= mon.lastKnownInlineDiffCount

\* C36: after consumeAgentActivity, a poll that observes unchanged
\* fingerprints does not call markAgentActive: the monitor stays consumed,
\* the fingerprints stay unchanged for the next such poll, and
\* isAgentActive stays false as long as the databases show nothing new
C36_UnchangedPollKeepsConsumed ==
  /\ [](( /\ agentMonitor.agentActivityConsumed
          /\ UnchangedFingerprints(agentMonitor))
        => LET polled == checkForAgentActivity(agentMonitor, cursorDb, now)
           IN  /\ polled.activations = agentMonitor.activations
               /\ polled.agentActivityConsumed
               /\ UnchangedFingerprints(polled)
               /\ \A ws \in QueryPaths : ~isAgentActive(polled, ws, now))
  /\ [][( /\ agentMonitor.agentActivityConsumed
          /\ UnchangedFingerprints(agentMonitor)
          /\ cursorDb' = cursorDb)
        => /\ agentMonitor'.agentActivityConsumed
           /\ agentMonitor'.activations = agentMonitor.activations
           /\ \A ws \in QueryPaths : ~isAgentActive(agentMonitor', ws, now')]_vars

\* the activity was consumed inside its window and the databases show what
\* the polls have already seen
C36_Witness ==
  /\ agentMonitor.agentActivityConsumed
  /\ agentMonitor.activations > 0
  /\ now - agentMonitor.newActivityDetectedAt < RECENT_AGENT_ACTIVITY_MS
  /\ UnchangedFingerprints(agentMonitor)
  /\ checkForAgentActivity(agentMonitor, cursorDb, now) = agentMonitor


\* C37: a poll marks the agent active only for data that is new since
\* monitoring began: the first poll of a monitor, observing the bubbles and
\* inline diffs the databases held before it started, does not make
\* isAgentActive true
C37_FirstPollIgnoresExistingData ==
  [][(agentMonitor = NoMonitor /\ Poll)
     => /\ agentMonitor'.activations = 0
        /\ \A ws \in QueryPaths : ~isAgentActive(agentMonitor', ws, now')]_vars


\* C38: a file-delete event for a tracked file emits one file_delete
\* record, cancels the file's debounce timer and removes its state, and no
\* diff record of the file follows while the file has not been opened or
\* changed again
C38_NoDiffAfterDelete ==
  /\ [][\A f \in Files :
          (FileDelete(f) /\ fileStates[f].tracked)
          => /\ lastRecord'.type = "file_delete"
             /\ lastRecord'.filePath = f
             /\ ~fileStates'[f].tracked
             /\ \A tm \in timers' : tm.filePath # f]_vars
  /\ [][\A f \in Files :
          (/\ lastRecord.type = "file_delete"
           /\ lastRecord.filePath = f
           /\ ~fileStates[f].tracked)
          => ~(lastRecord'.type = "diff" /\ lastRecord'.filePath = f)]_vars


\* C39: after startOrResumeSession the project has at most one open
\* session: an open session it finds is resumed or ended before a session
\* is created, also when the open session has no events
C39_AtMostOneOpenSession ==
  [][(\/ SessionInitialize
      \/ SessionRecordEvent /\ now - lastActivityTime > IDLE_TIMEOUT_MS)
     => Cardinality(openSessions(sessions')) <= 1]_vars


\* the iterations of computeHunks on the lines of oldText and newText, cut
\* after one more than the two sequences have lines
HunkRun ==
  LET oldLines == split(oldText)
      newLines == split(newText)
  IN  hunkIterations(oldLines, newLines,
                     longestCommonSubsequence(oldLines, newLines),
                     [oldIdx |-> 0, newIdx |-> 0, lcsIdx |-> 0],
                     Len(oldLines) + Len(newLines) + 1)

\* the indices before iteration k of a run
indicesBefore(run, k) ==
  IF k = 1 THEN [oldIdx |-> 0, newIdx |-> 0] ELSE run[k - 1]

\* C40: computeHunks terminates for every pair of line sequences: each
\* iteration of its outer loop advances oldIdx or newIdx and moves neither
\* back nor past the end, so the loop makes at most as many iterations as
\* the two sequences have lines, and it ends with both indices at the ends
\* of their sequences, having pushed the hunks computeHunks returns
C40_HunkLoopTerminates ==
  LET oldLines == split(oldText)
      newLines == split(newText)
      run      == HunkRun
      isHunk(k) == Len(run[k].hunk.lines) > 0
  IN  /\ \A k \in 1..Len(run) :
           /\ run[k].oldIdx >= indicesBefore(run, k).oldIdx
           /\ run[k].newIdx >= indicesBefore(run, k).newIdx
           /\ \/ run[k].oldIdx > indicesBefore(run, k).oldIdx
              \/ run[k].newIdx > indicesBefore(run, k).newIdx
           /\ run[k].oldIdx <= Len(oldLines)
           /\ run[k].newIdx <= Len(newLines)
      /\ Len(run) <= Len(oldLines) + Len(newLines)
      /\ Len(run) > 0
      /\ run[Len(run)].oldIdx = Len(oldLines)
      /\ run[Len(run)].newIdx = Len(newLines)
      /\ diffDone =>
           Len(diff.text) = Cardinality({k \in 1..Len(run) : isHunk(k)})

\* a diff whose loop made three iterations, the last one only skipping the
\* matching lines at the end
C40_Witness ==
  /\ diffDone
  /\ Len(HunkRun) = 3
  /\ Len(diff.text) = 2
  /\ HunkRun[3].hunk.lines = <<>>
  /\ HunkRun[3].oldIdx = Len(split(oldText))
  /\ HunkRun[3].newIdx = Len(split(newText))

\* the loop over two one-line texts that differ, and over two equal texts
C40_WitnessOneHunk ==
  /\ diffDone
  /\ oldText = <<"a">> /\ newText = <<"b">>
  /\ Len(HunkRun) = 1
  /\ HunkRun[1].oldIdx = 1 /\ HunkRun[1].newIdx = 1

C40_WitnessEqual ==
  /\ diffDone
  /\ oldText = newText
  /\ Len(split(oldText)) = 3
  /\ Len(HunkRun) = 1
  /\ HunkRun[1].hunk.lines = <<>>

====
